---- MODULE Spec2Model ----
(***************************************************************************)
(* A model of the ymori-sql-formatter rendering engine: the keyword width  *)
(* analyzer (FormatterUtils), the indent context (IndentContext), the      *)
(* expression renderer (ExpressionFormatter), the SELECT statement         *)
(* renderer (SelectFormatter) and the orchestrator (SqlFormatter.formatSql)*)
(*                                                                         *)
(* Text is a sequence of one-character strings, so that lengths, columns,  *)
(* padding, line splitting and letter case are those of the JavaScript     *)
(* strings the code builds.  An AST node is a record; a field the parser   *)
(* left out (undefined / null) is a field that is not in the record's      *)
(* DOMAIN.  An uncaught JavaScript exception is the text Thrown.           *)
(***************************************************************************)
EXTENDS Integers, Sequences, FiniteSets, TLC

VARIABLES pc, stmt, expr, ctx, keywordCase, standardFormat, sql, parsed, out, width,
          derived, given, entries

vars == <<pc, stmt, expr, ctx, keywordCase, standardFormat, sql, parsed, out, width,
          derived, given, entries>>

(***************************************************************************)
(* JavaScript strings                                                      *)
(***************************************************************************)

\* The value a call has when it raised instead of returning a string.
Thrown == <<"!throw">>

IsThrown(t) == \E i \in DOMAIN t : t[i] = "!throw"

\* ' '.repeat(n): a RangeError when n is negative.
Spaces(n) == IF n < 0 THEN Thrown ELSE [i \in 1..n |-> " "]

\* s.padStart(n, ' ')
PadStart(s, n) == IF Len(s) >= n THEN s ELSE [i \in 1..(n - Len(s)) |-> " "] \o s

RECURSIVE Join(_, _)
\* parts.join(sep)
Join(parts, sep) ==
  IF Len(parts) = 0 THEN <<>>
  ELSE IF Len(parts) = 1 THEN parts[1]
  ELSE parts[1] \o sep \o Join(Tail(parts), sep)

NL == <<"\n">>

IndexOf(t, c) ==
  IF \E i \in DOMAIN t : t[i] = c
  THEN CHOOSE i \in DOMAIN t : t[i] = c /\ \A j \in 1..(i - 1) : t[j] # c
  ELSE 0

RECURSIVE SplitLines(_)
\* text.split('\n')
SplitLines(t) ==
  LET Split(i) == IF i = 0 THEN <<t>>
                  ELSE <<SubSeq(t, 1, i - 1)>> \o SplitLines(SubSeq(t, i + 1, Len(t)))
  IN Split(IndexOf(t, "\n"))

\* text.startsWith(prefix)
StartsWith(text, prefix) ==
  Len(text) >= Len(prefix) /\ SubSeq(text, 1, Len(prefix)) = prefix

\* text.endsWith(suffix)
EndsWith(text, suffix) ==
  Len(text) >= Len(suffix) /\ SubSeq(text, Len(text) - Len(suffix) + 1, Len(text)) = suffix

IsSpace(c) == c \in {" ", "\n", "\t"}

\* line.trim()
Trim(t) ==
  IF \A i \in DOMAIN t : IsSpace(t[i]) THEN <<>>
  ELSE SubSeq(t,
         CHOOSE i \in DOMAIN t : ~IsSpace(t[i]) /\ \A j \in 1..(i - 1) : IsSpace(t[j]),
         CHOOSE i \in DOMAIN t : ~IsSpace(t[i]) /\ \A j \in (i + 1)..Len(t) : IsSpace(t[j]))

LowerLetters == <<"a","b","c","d","e","f","g","h","i","j","k","l","m","n","o","p","q","r","s","t",
       "u","v","w","x","y","z">>

UpperLetters == <<"A","B","C","D","E","F","G","H","I","J","K","L","M","N","O","P","Q","R","S","T",
       "U","V","W","X","Y","Z">>

\* s.toUpperCase()
toUpperCase(s) ==
  LET Upper(c, k) == IF k # 0 THEN UpperLetters[k] ELSE c
  IN [i \in DOMAIN s |-> Upper(s[i], IndexOf(LowerLetters, s[i]))]

\* s.toLowerCase()
toLowerCase(s) ==
  LET Lower(c, k) == IF k # 0 THEN LowerLetters[k] ELSE c
  IN [i \in DOMAIN s |-> Lower(s[i], IndexOf(UpperLetters, s[i]))]

(***************************************************************************)
(* AST access                                                              *)
(***************************************************************************)

\* A field that is present: in JavaScript, a truthy object, array or
\* non-empty string.
Has(node, f) == f \in DOMAIN node

\* The value of an expression or statement that is undefined.
Undefined == [undefined |-> TRUE]

IsUndefined(node) == "undefined" \in DOMAIN node

Field(node, f) == IF Has(node, f) THEN node[f] ELSE Undefined

(***************************************************************************)
(* IndentContext                                                           *)
(***************************************************************************)

\* parent: <<>> is null, <<c>> is the context c.
NoParent == <<>>

IndentContext(nestLevel, contextType, baseKeywordLength, parent, isFirstSelect) ==
  [nestLevel |-> nestLevel, contextType |-> contextType,
   baseKeywordLength |-> baseKeywordLength, parent |-> parent,
   isFirstSelect |-> isFirstSelect]

createChildContext(c, childType) ==
  IndentContext(c.nestLevel + 1, childType, c.baseKeywordLength, <<c>>, FALSE)

\* A sibling that is hung under the receiver instead of under its parent.
createSiblingUnderSelf(c, siblingType) ==
  IndentContext(c.nestLevel, siblingType, c.baseKeywordLength, <<c>>, FALSE)

createSiblingContext(c, siblingType) ==
  IndentContext(c.nestLevel, siblingType, c.baseKeywordLength, c.parent, FALSE)

createSubqueryContext(c, subqueryBaseLength) ==
  IndentContext(c.nestLevel + 1, "subquery", subqueryBaseLength, <<c>>, FALSE)

\* A base indent that does not grow with the nesting level.
getBaseIndentFlat(c) == c.baseKeywordLength

getBaseIndent(c) ==
  IF c.nestLevel = 0 THEN c.baseKeywordLength
  ELSE c.baseKeywordLength + (c.nestLevel * 2)

getContextIndent(c) ==
  LET Adjust(baseIndent) ==
        CASE c.contextType = "main" -> baseIndent
          [] c.contextType = "select_clause" -> baseIndent + 1
          [] c.contextType = "where_clause" -> baseIndent + 1
          [] c.contextType = "case_when" -> baseIndent + 3
          [] c.contextType = "function_arg" -> baseIndent + 1
          [] c.contextType = "subquery" -> baseIndent + 1
          [] c.contextType = "join_condition" -> baseIndent
          [] OTHER -> baseIndent
  IN Adjust(getBaseIndent(c))

getIndentString(c) == Spaces(getContextIndent(c))

\* A closing indent without the extra column of a subquery context.
getClosingIndentOfParent(c) ==
  IF c.parent # NoParent THEN getContextIndent(c.parent[1])
  ELSE c.baseKeywordLength

getClosingIndent(c) ==
  IF c.contextType = "subquery" /\ c.parent # NoParent
  THEN getContextIndent(c.parent[1]) + 1
  ELSE IF c.parent # NoParent THEN getContextIndent(c.parent[1])
  ELSE c.baseKeywordLength

getClosingIndentString(c) == Spaces(getClosingIndent(c))

(***************************************************************************)
(* FormatterUtils: the keyword width analyzer                              *)
(***************************************************************************)

RECURSIVE countAndKeywords(_)
RECURSIVE countAndKeywordsAnywhere(_)
\* A count that also descends below the nodes that are not AND.
countAndKeywordsAnywhere(e) ==
  IF IsUndefined(e) THEN 0
  ELSE (IF e.type = "binary_expr" /\ e.operator = <<"A","N","D">> THEN 1 ELSE 0)
       + (IF "left" \in DOMAIN e THEN countAndKeywordsAnywhere(e.left) ELSE 0)
       + (IF "right" \in DOMAIN e /\ "type" \in DOMAIN e.right
          THEN countAndKeywordsAnywhere(e.right) ELSE 0)

countAndKeywords(e) ==
  IF IsUndefined(e) THEN 0
  ELSE IF e.type = "binary_expr" /\ e.operator = <<"A","N","D">>
       THEN 1 + countAndKeywords(Field(e, "left")) + countAndKeywords(Field(e, "right"))
       ELSE 0

\* The keywords one FROM entry contributes.
JoinKeywords(table) ==
  IF Has(table, "join")
  THEN <<table.join>> \o
       (IF Has(table, "on")
        THEN <<<<"O","N">>>> \o [i \in 1..countAndKeywords(table.on) |-> <<"A","N","D">>]
        ELSE <<>>)
  ELSE <<>>

RECURSIVE Concat(_)
\* [].concat(...lists)
Concat(lists) == IF Len(lists) = 0 THEN <<>> ELSE lists[1] \o Concat(Tail(lists))

collectKeywordsFromStatement(s) ==
  IF s.type = "select"
  THEN <<<<"S","E","L","E","C","T">>>>
       \o (IF Has(s, "from") THEN <<<<"F","R","O","M">>>> ELSE <<>>)
       \o (IF Has(s, "where") THEN <<<<"W","H","E","R","E">>>> ELSE <<>>)
       \o (IF Has(s, "groupby") THEN <<<<"G","R","O","U","P"," ","B","Y">>>> ELSE <<>>)
       \o (IF Has(s, "having") THEN <<<<"H","A","V","I","N","G">>>> ELSE <<>>)
       \o (IF Has(s, "orderby") THEN <<<<"O","R","D","E","R"," ","B","Y">>>> ELSE <<>>)
       \o (IF Has(s, "limit")
           THEN <<<<"L","I","M","I","T">>>> \o (IF s.limit.seperator = "offset" THEN <<<<"O","F","F","S","E","T">>>>
             ELSE <<>>)
           ELSE <<>>)
       \o (IF Has(s, "from")
           THEN Concat([i \in DOMAIN s.from |-> JoinKeywords(s.from[i])])
           ELSE <<>>)
  ELSE IF s.type = "update"
  THEN <<<<"U","P","D","A","T","E">>>>
       \o (IF Has(s, "set") THEN <<<<"S","E","T">>>> ELSE <<>>)
       \o (IF Has(s, "where") THEN <<<<"W","H","E","R","E">>>> ELSE <<>>)
  ELSE IF s.type = "delete"
  THEN <<<<"D","E","L","E","T","E"," ","F","R","O","M">>>> \o (IF Has(s,
      "where") THEN <<<<"W","H","E","R","E">>>> ELSE <<>>)
  ELSE IF s.type = "insert"
  THEN <<<<"I","N","S","E","R","T"," ","I","N","T","O">>>> \o (IF Has(s,
      "values") THEN <<<<"V","A","L","U","E","S">>>> ELSE <<>>)
  ELSE <<>>

\* The length of the last keyword instead of the greatest length.
LastLength(keywords) == Len(keywords[Len(keywords)])

\* Math.max(...keywords.map(k => k.length)) of a non-empty list
MaxLength(keywords) ==
  CHOOSE n \in {Len(keywords[i]) : i \in DOMAIN keywords} :
    \A i \in DOMAIN keywords : Len(keywords[i]) <= n

\* cte.stmt?.ast || cte.stmt
CteQuery(cte) ==
  IF Has(cte, "stmt")
  THEN (IF Has(cte.stmt, "ast") THEN cte.stmt.ast ELSE cte.stmt)
  ELSE Undefined

\* Array.isArray(stmt.with): a WITH list is a sequence, whose indices start at
\* 1; a payload that is an object and no list holds its one value at index 0.
IsCteList(withClause) == 0 \notin DOMAIN withClause

\* The analyzer without the Array.isArray test: the bodies of any payload count.
calculateGlobalMaxKeywordLengthOfAny(s) ==
  LET Elements(list) == {list[i] : i \in DOMAIN list}
      Bodies == {CteQuery(s.with[k]) : k \in DOMAIN s.with} \ {Undefined}
      allKeywords ==
        (IF Has(s, "with")
         THEN {<<"W","I","T","H">>}
              \cup UNION {Elements(collectKeywordsFromStatement(body)) : body \in Bodies}
         ELSE {})
        \cup Elements(collectKeywordsFromStatement(s))
  IN IF allKeywords = {} THEN 0
     ELSE CHOOSE n \in {Len(k) : k \in allKeywords} : \A k \in allKeywords : Len(k) <= n

calculateGlobalMaxKeywordLength(s) ==
  LET Longest(allKeywords) == IF Len(allKeywords) > 0 THEN MaxLength(allKeywords) ELSE 0
  IN Longest((IF Has(s, "with") /\ IsCteList(s.with)
              THEN <<<<"W","I","T","H">>>> \o
                   Concat([i \in DOMAIN s.with |->
                             IF IsUndefined(CteQuery(s.with[i])) THEN <<>>
                             ELSE collectKeywordsFromStatement(CteQuery(s.with[i]))])
              ELSE <<>>)
             \o collectKeywordsFromStatement(s))

\* The width of the shortest keyword instead of the longest.
calculateSubqueryKeywordLengthShortest(ast) ==
  LET Shortest(keywords) ==
        IF Len(keywords) > 0
        THEN CHOOSE n \in {Len(keywords[i]) : i \in DOMAIN keywords} :
               \A i \in DOMAIN keywords : n <= Len(keywords[i])
        ELSE 6
  IN Shortest(collectKeywordsFromStatement(ast))

calculateSubqueryKeywordLength(ast) ==
  LET Longest(keywords) == IF Len(keywords) > 0 THEN MaxLength(keywords) ELSE 6
  IN Longest(collectKeywordsFromStatement(ast))

(***************************************************************************)
(* ExpressionFormatter                                                     *)
(***************************************************************************)

\* A template literal or a string concatenation: it has a value only when
\* every part was computed without raising.
Str(parts) == IF \E i \in DOMAIN parts : IsThrown(parts[i]) THEN Thrown ELSE Concat(parts)

\* parts.join(sep) over parts that were each computed by a call
JoinS(parts, sep) == IF \E i \in DOMAIN parts : IsThrown(parts[i]) THEN Thrown ELSE Join(parts, sep)

\* typeof / switch (expr.type)
TypeOf(e) == IF Has(e, "type") THEN e.type ELSE "undefined"

\* expr.operator, the empty text when the node has none
Op(e) == IF Has(e, "operator") THEN e.operator ELSE <<>>

\* The grave accent character, which a TLA+ string cannot hold: one element
\* standing for the one character.
Backtick == <<"grave">>

\* The text of expr.value inside a template literal
ValueText(e) == IF Has(e, "value") THEN e.value ELSE <<"u","n","d","e","f","i","n","e","d">>

\* Array.isArray(x): an array is a record with the one field items
IsArray(e) == Has(e, "items")

\* context.contextType === 'where_clause' || context.contextType === 'join_condition'
IsWhereCtx(context) == context.contextType \in {"where_clause", "join_condition"}

subqueryOperators == {<<"I","N">>, <<"E","X","I","S","T","S">>, <<"A","N","Y">>, <<"A","L","L">>}

\* The options object: keywordCase is "upper" or "lower".
formatKeyword(keyword, o) ==
  IF o.keywordCase = "upper" THEN toUpperCase(keyword) ELSE toLowerCase(keyword)

formatColumnRef(e) ==
  LET columnName ==
        IF Has(e, "column") /\ Has(e.column, "str") THEN e.column.str
        ELSE IF Has(e, "column") /\ Has(e.column, "expr") /\ Has(e.column.expr, "value")
             THEN e.column.expr.value
        ELSE IF Has(e, "column") /\ Has(e.column, "value") THEN e.column.value
        ELSE <<"u","n","k","n","o","w","n","_","c","o","l","u","m","n">>
  IN IF Has(e, "table") THEN Str(<<e.table, <<".">>, columnName>>) ELSE columnName

handleUnknownExpression(e) ==
  IF Has(e, "value") THEN e.value
    ELSE <<"/","*"," ","u","n","s","u","p","p","o","r","t","e","d"," ","e","x","p","r","e","s",
         "s","i","o","n"," ","*","/">>

RECURSIVE flattenRightFirst(_, _)
\* A flattening that lists the right operand's leaves before the left one's.
flattenRightFirst(e, operator) ==
  IF IsUndefined(e) \/ TypeOf(e) # "binary_expr" THEN <<e>>
  ELSE IF Op(e) = operator
       THEN flattenRightFirst(Field(e, "right"), operator)
            \o flattenRightFirst(Field(e, "left"), operator)
       ELSE <<e>>

RECURSIVE flattenAndOrConditions(_, _)
flattenAndOrConditions(e, operator) ==
  IF IsUndefined(e) \/ TypeOf(e) # "binary_expr" THEN <<e>>
  ELSE IF Op(e) = operator
       THEN flattenAndOrConditions(Field(e, "left"), operator)
            \o flattenAndOrConditions(Field(e, "right"), operator)
       ELSE <<e>>

\* The first item of an expression list that carries a subquery, if any.
FirstAst(items) ==
  IF \E i \in DOMAIN items : Has(items[i], "ast")
  THEN items[CHOOSE i \in DOMAIN items :
               Has(items[i], "ast") /\ \A j \in 1..(i - 1) : ~Has(items[j], "ast")].ast
  ELSE Undefined

\* null is Undefined
extractSubqueryAst(e) ==
  IF IsUndefined(e) THEN Undefined
  ELSE IF Has(e, "ast") THEN e.ast
  ELSE IF TypeOf(e) = "expr_list" /\ Has(e, "value") THEN FirstAst(e.value)
  ELSE Undefined

\* expr.name.name[0].value.toUpperCase(), for a node with name.name
FuncName0(f) ==
  IF Len(f.name.name) = 0 THEN Thrown
  ELSE IF ~Has(f.name.name[1], "value") THEN Thrown
  ELSE toUpperCase(f.name.name[1].value)

\* expr.name && expr.name.name
HasNameParts(f) == Has(f, "name") /\ Has(f.name, "name")

\* expr.args && expr.args.value && expr.args.value[0] && expr.args.value[0].ast
HasSubqueryArg(f) ==
  Has(f, "args") /\ Has(f.args, "value") /\ Len(f.args.value) >= 1
  /\ Has(f.args.value[1], "ast")

\* right.type === 'expr_list' && right.value && right.value.length >= 2
IsValueList(right) ==
  TypeOf(right) = "expr_list" /\ Has(right, "value") /\ Len(right.value) >= 2

RECURSIVE formatExpressionWithContext(_, _, _)
RECURSIVE formatSelectStatementWithContext(_, _, _, _)

\* text.split('\n').map(line => line.trim() ? indent + line : line).join('\n')
IndentLines(text, indent) ==
  LET lines == SplitLines(text)
  IN Join([i \in DOMAIN lines |->
             IF Trim(lines[i]) = <<>> THEN lines[i] ELSE indent \o lines[i]], NL)

\* Math.max(a, b)
Max(a, b) == IF a >= b THEN a ELSE b

\* The context the statement of a subquery is rendered under: derived from
\* the parent of the context handed in, or from that context when it has no
\* parent, with the width of the subquery's own keywords.
dynamicSubqueryContext(ast, subqueryContext) ==
  createSubqueryContext(IF subqueryContext.parent # NoParent
                        THEN subqueryContext.parent[1] ELSE subqueryContext,
                        calculateSubqueryKeywordLength(ast))

formatSubqueryWithContext(ast, subqueryContext, skipParentheses, isWhereContext, o) ==
  LET parentContext == IF subqueryContext.parent # NoParent
                       THEN subqueryContext.parent[1] ELSE subqueryContext
      baseIndent == parentContext.baseKeywordLength
      Layout(indentedSubquery, closing) ==
        IF skipParentheses
        THEN (IF isWhereContext THEN Str(<<NL, indentedSubquery>>)
              ELSE Str(<<NL, indentedSubquery, NL>>))
        ELSE Str(<<<<"(">>, NL, indentedSubquery, NL, closing, <<")">>>>)
      Indent(subqueryResult, dynamicContext) ==
        IF IsThrown(subqueryResult) THEN Thrown
        ELSE IF isWhereContext
        THEN Layout(IndentLines(subqueryResult, Spaces(Max(baseIndent + 1, 2))),
                    Spaces(Max(baseIndent + 1, 0)))
        ELSE Layout(IndentLines(subqueryResult, getIndentString(dynamicContext)),
                    Spaces(getClosingIndent(dynamicContext)))
  IN IF IsUndefined(ast) THEN Thrown
     ELSE Indent(formatSelectStatementWithContext(ast,
                   dynamicSubqueryContext(ast, subqueryContext), FALSE, o),
                 dynamicSubqueryContext(ast, subqueryContext))

\* head, an opening parenthesis, the subquery and the closing line: the layout the subquery
\* operator handlers share; closing depends on the kind of context.
ParenSubquery(head, ast, context, o) ==
  Str(<<head, <<" ">>, <<"(">>, NL,
        formatSubqueryWithContext(ast, createSubqueryContext(context, 6), TRUE,
                                  IsWhereCtx(context), o),
        NL,
        IF IsWhereCtx(context) THEN Spaces(context.baseKeywordLength - 2)
        ELSE getIndentString(context),
        <<")">>>>)

formatCaseExpressionWithContext(e, context, o) ==
  LET ArgLine(arg, caseContext, whenIndent) ==
        IF TypeOf(arg) = "when"
        THEN <<Str(<<whenIndent, formatKeyword(<<"W","H","E","N">>, o), <<" ">>,
                     formatExpressionWithContext(Field(arg, "cond"), caseContext, o), <<" ">>,
                     formatKeyword(<<"T","H","E","N">>, o), <<" ">>,
                     formatExpressionWithContext(Field(arg, "result"), caseContext, o)>>)>>
        ELSE IF TypeOf(arg) = "else"
        THEN <<Str(<<whenIndent, formatKeyword(<<"E","L","S","E">>, o), <<" ">>,
                     formatExpressionWithContext(Field(arg, "result"), caseContext, o)>>)>>
        ELSE <<>>
      Lines(caseContext, endIndent) ==
        <<formatKeyword(<<"C","A","S","E">>, o)>>
        \o (IF Has(e, "args")
            THEN Concat([i \in DOMAIN e.args |->
                           ArgLine(e.args[i], caseContext, getIndentString(caseContext))])
            ELSE <<>>)
        \o <<Str(<<endIndent, formatKeyword(<<"E","N","D">>, o)>>)>>
  IN JoinS(Lines(createSiblingContext(context, "case_when"),
                 Spaces(getContextIndent(context))), NL)

\* A vertical list whose first value is indented like the later lines.
formatMultilineValueListFlush(values, context, o) ==
  JoinS(<<<<"(">>>>
        \o [i \in DOMAIN values |->
              Str(<<Spaces(context.baseKeywordLength + 1),
                    IF i = 1 THEN <<>> ELSE <<",", " ">>,
                    formatExpressionWithContext(values[i],
                      createChildContext(context, "function_arg"), o)>>)]
        \o <<Str(<<Spaces(context.baseKeywordLength + 1), <<")">>>>)>>, NL)

formatMultilineValueList(values, context, o) ==
  LET Lines(formattedValues, firstValueIndent, subsequentValueIndent, closingIndent) ==
        <<<<"(">>, Str(<<firstValueIndent, formattedValues[1]>>)>>
        \o [i \in 1..(Len(formattedValues) - 1) |->
              Str(<<subsequentValueIndent, <<",", " ">>, formattedValues[i + 1]>>)]
        \o <<Str(<<closingIndent, <<")">>>>)>>
  IN JoinS(Lines([i \in DOMAIN values |->
                    formatExpressionWithContext(values[i],
                      createChildContext(context, "function_arg"), o)],
                 Spaces(context.baseKeywordLength + 3),
                 Spaces(context.baseKeywordLength + 1),
                 Spaces(context.baseKeywordLength + 1)), NL)

\* The three BETWEEN handlers share this shape; word is BETWEEN or NOT BETWEEN.
BetweenText(word, right, left, context, o) ==
  IF ~IsUndefined(right) /\ TypeOf(right) = "expr_list" /\ Has(right, "value")
     /\ Len(right.value) = 2
  THEN Str(<<left, <<" ">>, word, <<" ">>,
             formatExpressionWithContext(right.value[1], context, o), <<" ">>, <<"A","N","D">>,
                 <<" ">>,
             formatExpressionWithContext(right.value[2], context, o)>>)
  ELSE IF ~IsUndefined(right) /\ IsArray(right) /\ Len(right.items) = 2
  THEN Str(<<left, <<" ">>, word, <<" ">>,
             formatExpressionWithContext(right.items[1], context, o), <<" ">>, <<"A","N","D">>,
                 <<" ">>,
             formatExpressionWithContext(right.items[2], context, o)>>)
  ELSE Str(<<left, <<" ">>, word, <<" ">>, formatExpressionWithContext(right, context, o)>>)

handleBetweenOperator(e, left, context, o) ==
  BetweenText(<<"B","E","T","W","E","E","N">>, Field(e, "right"), left, context, o)

handleNotBetweenOperator(e, left, context, o) ==
  BetweenText(<<"N","O","T"," ","B","E","T","W","E","E","N">>, Field(e.right, "right"), left,
      context, o)

handleDirectNotBetweenOperator(e, left, context, o) ==
  BetweenText(<<"N","O","T"," ","B","E","T","W","E","E","N">>, Field(e, "right"), left, context, o)

handleSubqueryOperator(e, left, context, o) ==
  LET operator == e.operator
      right == e.right
      subqueryAst == extractSubqueryAst(e.right)
      isWhereCtx == IsWhereCtx(context)
      Layout(subqueryResult) ==
        IF isWhereCtx
        THEN Str(<<left, <<" ">>, operator, <<" ">>, <<"(">>, subqueryResult, NL,
                   Spaces(context.baseKeywordLength + 1), <<")">>>>)
        ELSE Str(<<left, <<" ">>, operator, <<" ">>, <<"(">>, NL, subqueryResult, NL,
                   getIndentString(context), <<")">>>>)
  IN IF ~IsUndefined(subqueryAst)
     THEN Layout(formatSubqueryWithContext(subqueryAst, createSubqueryContext(context, 6),
                                           TRUE, isWhereCtx, o))
     ELSE IF operator = <<"I","N">> /\ IsValueList(right) /\ isWhereCtx
     THEN Str(<<left, <<" ">>, operator, <<" ">>,
                formatMultilineValueList(right.value, context, o)>>)
     ELSE Str(<<left, <<" ">>, operator, <<" ">>,
                formatExpressionWithContext(right, context, o)>>)

handleNotInOperator(e, left, context, o) ==
  LET right == e.right
      subqueryAst == extractSubqueryAst(e.right)
      head == Str(<<left, <<" ">>, <<"N","O","T"," ","I","N">>>>)
  IN IF TypeOf(right) = "expr_list" /\ ~IsUndefined(subqueryAst)
     THEN ParenSubquery(head, subqueryAst, context, o)
     ELSE IF TypeOf(right) = "expr_list" /\ IsValueList(right) /\ IsWhereCtx(context)
     THEN Str(<<head, <<" ">>, formatMultilineValueList(right.value, context, o)>>)
     ELSE Str(<<head, <<" ">>, formatExpressionWithContext(right, context, o)>>)

\* rightExpr.right.type on a missing rightExpr.right raises.
handleNotSubqueryOperator(e, left, context, o) ==
  LET operator == e.right.operator
      inner == Field(e.right, "right")
      subqueryAst == extractSubqueryAst(Field(e.right, "right"))
      head == Str(<<left, <<" ">>, <<"N","O","T">>, <<" ">>, e.right.operator>>)
  IN IF ~IsUndefined(subqueryAst) THEN ParenSubquery(head, subqueryAst, context, o)
     ELSE IF operator = <<"I","N">> /\ IsUndefined(inner) THEN Thrown
     ELSE IF operator = <<"I","N">> /\ IsValueList(inner) /\ IsWhereCtx(context)
     THEN Str(<<head, <<" ">>, formatMultilineValueList(inner.value, context, o)>>)
     ELSE Str(<<head, <<" ">>, formatExpressionWithContext(inner, context, o)>>)

\* null is the empty text: the caller tests the result for truthiness.
handleSpecialOperators(e, context, o) ==
  LET funcName == FuncName0(e)
  IN IF TypeOf(e) = "function" /\ HasNameParts(e)
     THEN IF IsThrown(funcName) THEN Thrown
          ELSE IF funcName \in {<<"E","X","I","S","T","S">>, <<"A","N","Y">>, <<"A","L","L">>}
                  /\ HasSubqueryArg(e)
          THEN ParenSubquery(funcName, e.args.value[1].ast, context, o)
          ELSE <<>>
     ELSE <<>>

\* n.value || n, joined: an object without value prints as [object Object]
NamePart(n) ==
  IF Has(n, "value") THEN n.value
  ELSE <<"[","o","b","j","e","c","t"," ","O","b","j","e","c","t","]">>

formatFunctionWithContext(e, context, o) ==
  LET Args(list, argContext) ==
        JoinS([i \in DOMAIN list |-> formatExpressionWithContext(list[i], argContext, o)],
              <<",", " ">>)
      Call(funcName, argContext) ==
        IF Has(e, "args") /\ Has(e.args, "value") /\ Len(e.args.value) > 0
        THEN Str(<<funcName, <<"(">>, Args(e.args.value, argContext), <<")">>>>)
        ELSE IF Has(e, "args") /\ IsArray(e.args)
        THEN Str(<<funcName, <<"(">>, Args(e.args.items, argContext), <<")">>>>)
        ELSE Str(<<funcName, <<"(">>, <<")">>>>)
  IN Call(IF Has(e, "name") /\ Has(e.name, "str") THEN e.name.str
          ELSE IF HasNameParts(e)
               THEN Join([i \in DOMAIN e.name.name |-> NamePart(e.name.name[i])], <<".">>)
          ELSE IF Has(e, "name") /\ Has(e.name, "value") THEN e.name.value
          ELSE <<"u","n","k","n","o","w","n","_","f","u","n","c","t","i","o","n">>,
          createChildContext(context, "function_arg"))

\* The text of expr.name of an aggregate or window function: the name is a string
NameText(e) == IF Has(e, "name") THEN e.name ELSE <<"u","n","d","e","f","i","n","e","d">>

formatAggregateFunctionWithContext(e, context, o) ==
  IF Has(e, "args") /\ Has(e.args, "expr")
  THEN LET distinct == IF Has(e.args, "distinct") THEN e.args.distinct \o <<" ">> ELSE <<>>
           arg == IF TypeOf(e.args.expr) = "star" THEN <<"*">>
                  ELSE formatExpressionWithContext(e.args.expr,
                         createChildContext(context, "function_arg"), o)
       IN Str(<<NameText(e), <<"(">>, distinct, arg, <<")">>>>)
  ELSE Str(<<NameText(e), <<"(">>, <<")">>>>)

formatWindowFunctionWithContext(e, context, o) ==
  LET PartitionColumn(col, argContext) ==
        IF Has(col, "expr") THEN formatExpressionWithContext(col.expr, argContext, o)
        ELSE formatExpressionWithContext(col, argContext, o)
      OrderColumn(col, argContext) ==
        Str(<<formatExpressionWithContext(IF Has(col, "expr") THEN col.expr ELSE col,
                                          argContext, o),
              IF TypeOf(col) = "ASC" THEN <<" ">> \o <<"A","S","C">>
              ELSE IF TypeOf(col) = "DESC" THEN <<" ">> \o <<"D","E","S","C">> ELSE <<>>>>)
      Parts(windowSpec, argContext) ==
        (IF Has(windowSpec, "partitionby")
         THEN <<Str(<<<<"P","A","R","T","I","T","I","O","N"," ","B","Y">>, <<" ">>,
                      JoinS([i \in DOMAIN windowSpec.partitionby |->
                               PartitionColumn(windowSpec.partitionby[i], argContext)],
                            <<",", " ">>)>>)>>
         ELSE <<>>)
        \o (IF Has(windowSpec, "orderby")
            THEN <<Str(<<<<"O","R","D","E","R"," ","B","Y">>, <<" ">>,
                         JoinS([i \in DOMAIN windowSpec.orderby |->
                                  OrderColumn(windowSpec.orderby[i], argContext)],
                               <<",", " ">>)>>)>>
            ELSE <<>>)
      Over(result, parts) ==
        IF Len(parts) > 0
        THEN Str(<<result, <<" ">>, <<"O","V","E","R">>, <<" ">>, <<"(">>, JoinS(parts, <<" ">>),
            <<")">>>>)
        ELSE Str(<<result, <<" ">>, <<"O","V","E","R">>, <<" ">>, <<"(">>, <<")">>>>)
  IN IF Has(e, "over") /\ Has(e.over, "as_window_specification")
        /\ Has(e.over.as_window_specification, "window_specification")
     THEN Over(Str(<<NameText(e), <<"(">>, <<")">>>>),
               Parts(e.over.as_window_specification.window_specification,
                     createChildContext(context, "function_arg")))
     ELSE Str(<<NameText(e), <<"(">>, <<")">>>>)

formatCastExpressionWithContext(e, context, o) ==
  LET Cast(expression, targetType) ==
        IF Op(e) = <<":", ":">>
        THEN Str(<<expression, <<":", ":">>, targetType>>)
        ELSE Str(<<<<"C","A","S","T">>, <<"(">>, expression, <<" ">>, <<"A","S">>, <<" ">>,
            targetType, <<")">>>>)
  IN Cast(formatExpressionWithContext(Field(e, "expr"), context, o),
          IF Has(e, "target") THEN e.target ELSE <<"U","N","K","N","O","W","N">>)

formatUnaryExpressionWithContext(e, context, o) ==
  LET operator == IF Has(e, "operator") THEN e.operator
                  ELSE <<"u","n","d","e","f","i","n","e","d">>
      inner == Field(e, "expr")
      IsNotOverCall == operator = <<"N","O","T">> /\ ~IsUndefined(inner)
                       /\ TypeOf(inner) = "function" /\ HasNameParts(inner)
      funcName == FuncName0(inner)
      operand == formatExpressionWithContext(inner, context, o)
  IN IF IsNotOverCall /\ IsThrown(funcName) THEN Thrown
     ELSE IF IsNotOverCall /\ funcName = <<"E","X","I","S","T","S">> /\ HasSubqueryArg(inner)
     THEN ParenSubquery(<<"N","O","T"," ","E","X","I","S","T","S">>, Field(inner, "ast"),
                        context, o)
     ELSE IF operator \in {<<"N","O","T">>, <<"-">>, <<"+">>,
                           <<"N","O","T"," ","E","X","I","S","T","S">>}
     THEN Str(<<operator, <<" ">>, operand>>)
     ELSE Str(<<operand, <<" ">>, operator>>)

formatArrayExpressionWithContext(e, context, o) ==
  IF Has(e, "value")
  THEN Str(<<<<"A","R","R","A","Y">>, <<"[">>,
             JoinS([i \in DOMAIN e.value |-> formatExpressionWithContext(e.value[i], context, o)],
                   <<",", " ">>), <<"]">>>>)
  ELSE <<"A","R","R","A","Y">> \o <<"[", "]">>

formatExprListWithContext(e, context, o) ==
  LET hasSubquery == Has(e, "value") /\ \E i \in DOMAIN e.value : Has(e.value[i], "ast")
      List(values) ==
        IF hasSubquery
        THEN Str(<<<<"(">>, values, NL, getClosingIndentString(context), <<")">>>>)
        ELSE Str(<<<<"(">>, values, <<")">>>>)
  IN IF Has(e, "value")
     THEN List(JoinS([i \in DOMAIN e.value |->
                        IF hasSubquery /\ Has(e.value[i], "ast")
                        THEN formatSubqueryWithContext(e.value[i].ast,
                               createSubqueryContext(context, 6), TRUE, IsWhereCtx(context), o)
                        ELSE formatExpressionWithContext(e.value[i],
                               createChildContext(context, "function_arg"), o)],
                     <<",", " ">>))
     ELSE <<"(", ")">>

handleUndefinedExpression(e, context, o) ==
  IF Has(e, "ast")
  THEN formatSubqueryWithContext(e.ast, createSubqueryContext(context, 6), FALSE,
                                 IsWhereCtx(context), o)
  ELSE IF Has(e, "columns")
  THEN JoinS([i \in DOMAIN e.columns |-> formatExpressionWithContext(e.columns[i], context, o)],
             <<",", " ">>)
  ELSE handleUnknownExpression(e)

formatBinaryExpressionWithContext(e, context, o) ==
  LET left == formatExpressionWithContext(Field(e, "left"), context, o)
      operator == Op(e)
      right == Field(e, "right")
      hasRight == ~IsUndefined(Field(e, "right"))
      rightOp == Op(Field(e, "right"))
      IsCall == ~IsUndefined(Field(e, "right")) /\ TypeOf(Field(e, "right")) = "function"
                /\ HasNameParts(Field(e, "right"))
      funcName == FuncName0(Field(e, "right"))
      rightText == formatExpressionWithContext(Field(e, "right"), context, o)
      Condition(conditionStr, index) ==
        IF index = 1 THEN conditionStr
        ELSE Str(<<Spaces(context.baseKeywordLength - Len(Op(e))), Op(e),
                   <<" ">>, conditionStr>>)
      Conditions(conditions) ==
        JoinS([index \in DOMAIN conditions |->
                 Condition(formatExpressionWithContext(conditions[index], context, o), index)],
              NL)
  IN IF IsThrown(left) THEN Thrown
     ELSE IF operator = <<"=">> /\ ~hasRight THEN Thrown
     ELSE IF operator = <<"=">> /\ TypeOf(right) = "case"
     THEN Str(<<left, <<" ">>, operator, <<" ">>,
                formatCaseExpressionWithContext(right,
                  IndentContext(context.nestLevel, "case_when", context.baseKeywordLength,
                                <<context>>, FALSE), o)>>)
     ELSE IF operator \in subqueryOperators /\ hasRight
     THEN handleSubqueryOperator(e, left, context, o)
     ELSE IF operator = <<"N","O","T"," ","I","N">> /\ hasRight
     THEN handleNotInOperator(e, left, context, o)
     ELSE IF operator = <<"N","O","T">> /\ hasRight /\ rightOp \in subqueryOperators
     THEN handleNotSubqueryOperator(e, left, context, o)
     ELSE IF operator = <<"N","O","T">> /\ hasRight /\ rightOp = <<"B","E","T","W","E","E","N">>
     THEN handleNotBetweenOperator(e, left, context, o)
     ELSE IF operator = <<"B","E","T","W","E","E","N">> /\ hasRight
     THEN handleBetweenOperator(e, left, context, o)
     ELSE IF operator = <<"N","O","T"," ","B","E","T","W","E","E","N">> /\ hasRight
     THEN handleDirectNotBetweenOperator(e, left, context, o)
     ELSE IF IsCall /\ IsThrown(funcName) THEN Thrown
     ELSE IF IsCall /\ funcName \in {<<"A","N","Y">>, <<"A","L","L">>} /\ HasSubqueryArg(right)
     THEN ParenSubquery(Str(<<left, <<" ">>, operator, <<" ">>, funcName>>),
                        right.args.value[1].ast, context, o)
     ELSE IF IsThrown(rightText) THEN Thrown
     ELSE IF operator \in {<<"A","N","D">>, <<"O","R">>} /\ context.nestLevel = 0
     THEN Conditions(flattenAndOrConditions(e, operator))
     ELSE Str(<<left, <<" ">>, operator, <<" ">>, rightText>>)

formatExpressionWithContext(e, context, o) ==
  IF IsUndefined(e) THEN <<>>
  ELSE
  LET t == TypeOf(e)
      Quoted(open, close) == Str(<<open, ValueText(e), close>>)
      Function(specialResult) ==
        IF specialResult # <<>> THEN specialResult
        ELSE formatFunctionWithContext(e, context, o)
  IN CASE t = "column_ref" -> formatColumnRef(e)
       [] t = "case" -> formatCaseExpressionWithContext(e, context, o)
       [] t = "binary_expr" -> formatBinaryExpressionWithContext(e, context, o)
       [] t = "function" -> Function(handleSpecialOperators(e, context, o))
       [] t = "aggr_func" -> formatAggregateFunctionWithContext(e, context, o)
       [] t = "window_func" -> formatWindowFunctionWithContext(e, context, o)
       [] t = "cast" -> formatCastExpressionWithContext(e, context, o)
       [] t = "unary_expr" -> formatUnaryExpressionWithContext(e, context, o)
       [] t = "array" -> formatArrayExpressionWithContext(e, context, o)
       [] t = "param" -> ValueText(e)
       [] t = "backticks_quote_string" -> Quoted(Backtick, Backtick)
       [] t = "double_quote_string" -> Quoted(<<"\"">>, <<"\"">>)
       [] t \in {"single_quote_string", "string"} -> Quoted(<<"'">>, <<"'">>)
       [] t = "regex_string" -> Quoted(<<"~", "'">>, <<"'">>)
       [] t = "hex_string" -> Quoted(<<"X", "'">>, <<"'">>)
       [] t = "bit_string" -> Quoted(<<"B", "'">>, <<"'">>)
       [] t = "number" -> IF Has(e, "value") THEN e.value ELSE Thrown
       [] t \in {"bool", "boolean"} -> IF Has(e, "value") THEN toUpperCase(e.value) ELSE Thrown
       [] t = "null" -> <<"N","U","L","L">>
       [] t = "date" -> Quoted(<<"D","A","T","E">> \o <<" ", "'">>, <<"'">>)
       [] t = "time" -> Quoted(<<"T","I","M","E">> \o <<" ", "'">>, <<"'">>)
       [] t = "timestamp" -> Quoted(<<"T","I","M","E","S","T","A","M","P">> \o <<" ", "'">>,
           <<"'">>)
       [] t = "datetime" -> Quoted(<<"D","A","T","E","T","I","M","E">> \o <<" ", "'">>, <<"'">>)
       [] t = "star" -> <<"*">>
       [] t \in {"origin", "default"} -> ValueText(e)
       [] t = "expr_list" -> formatExprListWithContext(e, context, o)
       [] t = "interval" ->
            Str(<<<<"I","N","T","E","R","V","A","L">>, <<" ">>, formatExpressionWithContext(Field(e,
                "expr"), context, o)>>)
       [] t = "extract" ->
            Str(<<<<"E","X","T","R","A","C","T">>, <<"(">>, IF Has(e,
                "field") THEN e.field ELSE <<"U","N","K","N","O","W","N">>,
                  <<" ">>, <<"F","R","O","M">>, <<" ">>,
                  formatExpressionWithContext(Field(e, "source"), context, o), <<")">>>>)
       [] t = "undefined" -> handleUndefinedExpression(e, context, o)
       [] OTHER -> handleUnknownExpression(e)

(***************************************************************************)
(* SelectFormatter                                                         *)
(***************************************************************************)

formatColumnExpression(col, context, o) ==
  IF Has(col, "expr") THEN formatExpressionWithContext(col.expr, context, o)
  ELSE formatExpressionWithContext(col, context, o)

\* The list of column texts; <<Thrown>> when rendering a column raised.
formatColumnsWithAliasAlignment(columns, context, o) ==
  LET Pad(expressionPart, maxExpressionLength) ==
        [i \in DOMAIN columns |->
           IF Has(columns[i], "as")
           THEN Str(<<expressionPart[i], Spaces(maxExpressionLength - Len(expressionPart[i])),
                      <<" ">>, <<"A","S">>, <<" ">>, columns[i].as>>)
           ELSE expressionPart[i]]
      Align(expressionPart, hasAnyAlias) ==
        IF \E i \in DOMAIN columns : IsThrown(expressionPart[i]) THEN <<Thrown>>
        ELSE IF ~hasAnyAlias THEN expressionPart
        ELSE Pad(expressionPart, MaxLength(expressionPart))
  IN Align([i \in DOMAIN columns |-> formatColumnExpression(columns[i], context, o)],
           \E i \in DOMAIN columns : Has(columns[i], "as"))

formatSelectClauseWithContext(s, context, useStandardFormat, o) ==
  LET Rest(formattedColumns, commaIndent) ==
        [i \in 1..(Len(formattedColumns) - 1) |->
           Str(<<commaIndent, <<",", " ">>, formattedColumns[i + 1]>>)]
      Clause(selectKeyword, formattedColumns, columnIndent, commaIndent) ==
        IF Len(formattedColumns) = 1
        THEN IF useStandardFormat
             THEN Str(<<selectKeyword, NL, columnIndent, formattedColumns[1]>>)
             ELSE Str(<<selectKeyword, <<" ">>, formattedColumns[1]>>)
        ELSE IF ~useStandardFormat
        THEN JoinS(<<Str(<<selectKeyword, <<" ">>, formattedColumns[1]>>)>>
                   \o Rest(formattedColumns, commaIndent), NL)
        ELSE JoinS(<<selectKeyword, Str(<<columnIndent, formattedColumns[1]>>)>>
                   \o Rest(formattedColumns, commaIndent), NL)
  IN IF ~Has(s, "columns") \/ Len(s.columns) = 0 THEN formatKeyword(<<"S","E","L","E","C","T">>, o)
     ELSE Clause(PadStart(formatKeyword(<<"S","E","L","E","C","T">>, o), context.baseKeywordLength),
                 formatColumnsWithAliasAlignment(s.columns,
                   createSiblingContext(context, "select_clause"), o),
                 Spaces(context.baseKeywordLength + 1),
                 Spaces(Max(0, context.baseKeywordLength - 1)))

\* The context of a derived table with the width of its own keywords as it
\* is computed, without a least width.
subqueryContextAsComputed(table, context) ==
  IndentContext(context.nestLevel + 1, "subquery",
                calculateSubqueryKeywordLength(table.expr.ast), <<context>>, FALSE)

\* subqueryContext of formatTableWithContext: the context the SELECT of a
\* derived table is rendered under.
subqueryContextOfTable(table, context) ==
  LET Widened(calculated) == IF calculated <= 6 THEN 8 ELSE calculated
  IN IndentContext(context.nestLevel + 1, "subquery",
                   Widened(calculateSubqueryKeywordLength(table.expr.ast)), <<context>>, FALSE)

\* The body of the try block of formatTableWithContext.
TryFormatTable(table, context, useStandardFormat, o) ==
  LET Line(line, index, subqueryKeywordLength, baseIndent) ==
        IF index = 1 /\ Trim(line) = <<"S","E","L","E","C","T">>
        THEN Str(<<Spaces(subqueryKeywordLength - context.baseKeywordLength - 2), Trim(line)>>)
        ELSE IF Trim(line) # <<>> THEN baseIndent \o line
        ELSE line
      Lines(lines, subqueryKeywordLength, baseIndent) ==
        Str(<<<<"(">>, <<" ">>,
              JoinS([i \in DOMAIN lines |->
                       Line(lines[i], i, subqueryKeywordLength, baseIndent)], NL),
              NL, baseIndent, <<")">>>>)
      Subquery(formattedSubquery, subqueryKeywordLength) ==
        IF IsThrown(formattedSubquery) THEN Thrown
        ELSE Lines(SplitLines(formattedSubquery), subqueryKeywordLength,
                   Spaces(context.baseKeywordLength + 1))
      Render(ast, subqueryContext) ==
        Subquery(formatSelectStatementWithContext(ast, subqueryContext, useStandardFormat, o),
                 subqueryContext.baseKeywordLength)
      Alias(result) ==
        IF Has(table, "as") THEN Str(<<result, <<" ">>, <<"A","S">>, <<" ">>,
            table.as>>) ELSE result
  IN Alias(IF Has(table, "expr") /\ Has(table.expr, "ast")
           THEN Render(table.expr.ast, subqueryContextOfTable(table, context))
           ELSE IF Has(table, "table") THEN table.table
           ELSE IF Has(table, "name") THEN table.name
           ELSE IF Has(table, "value") THEN table.value
           ELSE <<"u","n","k","n","o","w","n","_","t","a","b","l","e">>)

formatTableWithContext(table, context, useStandardFormat, o) ==
  LET Catch(result, fallbackName) ==
        IF ~IsThrown(result) THEN result
        ELSE IF Has(table, "as") THEN Str(<<fallbackName, <<" ">>, <<"A","S">>, <<" ">>, table.as>>)
        ELSE fallbackName
  IN Catch(TryFormatTable(table, context, useStandardFormat, o),
           IF Has(table, "table") THEN table.table
           ELSE IF Has(table, "name") THEN table.name
           ELSE IF Has(table, "as") THEN table.as
           ELSE <<"e","r","r","o","r","_","t","a","b","l","e">>)

RECURSIVE formatJoinConditionRecursiveWithContext(_, _, _, _, _)
\* The list of lines; reading condition.type of a missing operand raises.
formatJoinConditionRecursiveWithContext(condition, context, joinContext, isFirst, o) ==
  IF IsUndefined(condition) THEN <<Thrown>>
  ELSE IF TypeOf(condition) = "binary_expr" /\ Op(condition) = <<"A","N","D">>
  THEN formatJoinConditionRecursiveWithContext(Field(condition, "left"), context,
                                               joinContext, isFirst, o)
       \o formatJoinConditionRecursiveWithContext(Field(condition, "right"), context,
                                                  joinContext, FALSE, o)
  ELSE <<Str(<<PadStart(formatKeyword(IF isFirst THEN <<"O","N">> ELSE <<"A","N","D">>, o),
                        context.baseKeywordLength),
              <<" ">>, formatExpressionWithContext(condition, joinContext, o)>>)>>

formatJoinConditionWithContext(condition, context, joinContext, o) ==
  formatJoinConditionRecursiveWithContext(condition, context, joinContext, TRUE, o)

formatComplexFromWithContext(fromClause, context, useStandardFormat, o) ==
  LET JoinLines(table, joinLine) ==
        IF Has(table, "on")
        THEN <<joinLine>> \o
             formatJoinConditionWithContext(table.on, context,
               createSiblingContext(context, "join_condition"), o)
        ELSE <<joinLine>>
      TableLines(i, table, tableName) ==
        IF i = 1 THEN <<tableName>>
        ELSE IF Has(table, "join")
        THEN JoinLines(table,
               Str(<<PadStart(formatKeyword(table.join, o), context.baseKeywordLength),
                     <<" ">>, tableName>>))
        ELSE <<tableName>>
  IN JoinS(Concat([i \in DOMAIN fromClause |->
                     TableLines(i, fromClause[i],
                       formatTableWithContext(fromClause[i], context, useStandardFormat, o))]),
           NL)

formatFromClauseWithContext(fromClause, context, useStandardFormat, o) ==
  LET hasJoin == \E i \in DOMAIN fromClause : i > 1 /\ Has(fromClause[i], "join")
  IN Str(<<PadStart(formatKeyword(<<"F","R","O","M">>, o), context.baseKeywordLength), <<" ">>,
           IF Len(fromClause) = 1 /\ ~hasJoin
           THEN formatTableWithContext(fromClause[1], context, useStandardFormat, o)
           ELSE formatComplexFromWithContext(fromClause, context, useStandardFormat, o)>>)

formatWhereClauseWithContext(whereClause, context, o) ==
  Str(<<PadStart(formatKeyword(<<"W","H","E","R","E">>, o), context.baseKeywordLength), <<" ">>,
        formatExpressionWithContext(whereClause, createSiblingContext(context, "where_clause"),
            o)>>)

\* A GROUP BY payload that is not an array is wrapped into a one-item array.
formatGroupByClauseWithContext(groupByClause, context, o) ==
  LET Columns(list) ==
        JoinS([i \in DOMAIN list |-> formatExpressionWithContext(list[i], context, o)],
              <<",", " ">>)
  IN Str(<<PadStart(formatKeyword(<<"G","R","O","U","P"," ","B","Y">>, o),
      context.baseKeywordLength), <<" ">>,
           Columns(IF IsArray(groupByClause) THEN groupByClause.items
                   ELSE <<groupByClause>>)>>)

formatHavingClauseWithContext(havingClause, context, o) ==
  Str(<<PadStart(formatKeyword(<<"H","A","V","I","N","G">>, o), context.baseKeywordLength), <<" ">>,
        formatExpressionWithContext(havingClause, context, o)>>)

formatOrderByClauseWithContext(orderByClause, context, o) ==
  LET Column(col) ==
        Str(<<formatExpressionWithContext(IF Has(col, "expr") THEN col.expr ELSE col,
                                          context, o),
              IF TypeOf(col) = "ASC" THEN <<" ">> \o <<"A","S","C">>
              ELSE IF TypeOf(col) = "DESC" THEN <<" ">> \o <<"D","E","S","C">> ELSE <<>>>>)
  IN Str(<<PadStart(formatKeyword(<<"O","R","D","E","R"," ","B","Y">>, o),
      context.baseKeywordLength), <<" ">>,
           JoinS([i \in DOMAIN orderByClause |-> Column(orderByClause[i])], <<",", " ">>)>>)

\* limitClause.value is a list here: the caller tested its length.
formatLimitClauseWithContext(limitClause, context, o) ==
  Str(<<PadStart(formatKeyword(<<"L","I","M","I","T">>, o), context.baseKeywordLength), <<" ">>,
        formatExpressionWithContext(limitClause.value[1], context, o)>>
      \o (IF limitClause.seperator = "offset" /\ Len(limitClause.value) > 1
          THEN <<<<" ">>, <<"O","F","F","S","E","T">>, <<" ">>,
                 formatExpressionWithContext(limitClause.value[2], context, o)>>
          ELSE <<>>))

\* The context formatSelectStatementWithContext renders the clauses of s with.
actualContext(s, context) ==
  IF context.nestLevel = 0 /\ context.contextType = "main" /\ Has(s, "with")
  THEN IndentContext(context.nestLevel, context.contextType,
                     calculateGlobalMaxKeywordLength(s), context.parent, FALSE)
  ELSE context

\* The context formatWithClauseWithContext hands to every CTE body.
cteContext(context) ==
  IndentContext(0, "main", context.baseKeywordLength, context.parent, FALSE)

\* cte.name?.value || cte.name || "unnamed_cte"
CteName(cte) ==
  IF Has(cte, "name") /\ Has(cte.name, "value") THEN cte.name.value
  ELSE IF Has(cte, "name") /\ Has(cte.name, "str") THEN cte.name.str
  ELSE <<"u","n","n","a","m","e","d","_","c","t","e">>

formatWithClauseWithContext(withClause, context, useStandardFormat, o) ==
  LET CteLines(index, cte, cteQuery) ==
        <<Str(<<IF index = 1 THEN <<"W","I","T","H">> \o <<" ">> ELSE <<",", " ", " ", " ", " ">>,
                CteName(cte), <<" ">>, <<"A","S">>, <<" ">>, <<"(">>>>)>>
        \o (IF IsUndefined(cteQuery) THEN <<>>
            ELSE <<formatSelectStatementWithContext(cteQuery, cteContext(context),
                                                    useStandardFormat, o)>>)
        \o <<<<")">>>>
  IN IF ~IsCteList(withClause)
     THEN formatKeyword(<<"W","I","T","H">>, o)
          \o <<" ","/","*"," ","i","n","v","a","l","i","d"," ","C","T","E"," ","*","/">>
     ELSE JoinS(Concat([index \in DOMAIN withClause |->
                          CteLines(index, withClause[index], CteQuery(withClause[index]))]), NL)

formatSelectStatementWithContext(s, context, useStandardFormat, o) ==
  LET actual == actualContext(s, context)
  IN JoinS(
        (IF Has(s, "with")
         THEN <<formatWithClauseWithContext(s.with, actual, useStandardFormat, o)>> ELSE <<>>)
        \o <<formatSelectClauseWithContext(s, actual, useStandardFormat, o)>>
        \o (IF Has(s, "from")
            THEN <<formatFromClauseWithContext(s.from, actual, useStandardFormat, o)>> ELSE <<>>)
        \o (IF Has(s, "where") THEN <<formatWhereClauseWithContext(s.where, actual, o)>> ELSE <<>>)
        \o (IF Has(s, "groupby")
            THEN <<formatGroupByClauseWithContext(s.groupby, actual, o)>> ELSE <<>>)
        \o (IF Has(s, "having")
            THEN <<formatHavingClauseWithContext(s.having, actual, o)>> ELSE <<>>)
        \o (IF Has(s, "orderby")
            THEN <<formatOrderByClauseWithContext(s.orderby, actual, o)>> ELSE <<>>)
        \o (IF Has(s, "limit") /\ Has(s.limit, "value") /\ Len(s.limit.value) > 0
            THEN <<formatLimitClauseWithContext(s.limit, actual, o)>> ELSE <<>>)
        \o (IF Has(s, "_next") /\ Has(s, "set_op")
            THEN <<PadStart(formatKeyword(toUpperCase(s.set_op), o), actual.baseKeywordLength),
                   formatSelectStatementWithContext(s._next, actual, useStandardFormat, o)>>
            ELSE <<>>),
        NL)

(***************************************************************************)
(* AST nodes as the parser hands them to the renderer                      *)
(***************************************************************************)

\* A field that is only sometimes there.
Opt(present, fields) == IF present THEN fields ELSE <<>>

Col(n) == [type |-> "column_ref", column |-> [str |-> n]]

Num(v) == [type |-> "number", value |-> v]

Quote(v) == [type |-> "single_quote_string", value |-> v]

Bin(op, l, r) == [type |-> "binary_expr", operator |-> op, left |-> l, right |-> r]

List(vs) == [type |-> "expr_list", value |-> vs]

Unary(op, e) == [type |-> "unary_expr", operator |-> op, expr |-> e]

\* A call whose name is a list of name parts, as for f(x), EXISTS(...), ANY(...)
Call(n, args) ==
  [type |-> "function", name |-> [name |-> <<[type |-> "default", value |-> n]>>],
   args |-> List(args)]

\* A parenthesised subquery: a node with no type that carries the statement.
Sub(ast) == [ast |-> ast]

CaseWhen(c, r, other) ==
  [type |-> "case",
   args |-> <<[type |-> "when", cond |-> c, result |-> r], [type |-> "else", result |-> other]>>]

Column(e) == [expr |-> e]

ColumnAs(e, alias) == [expr |-> e, as |-> alias]

Table(n) == [table |-> n]

JoinTable(kind, n, cond) == [table |-> n, join |-> kind, on |-> cond]

\* The LIMIT payload of the PostgreSQL grammar: present even without LIMIT.
Limit(sep, vs) == [seperator |-> sep, value |-> vs]

Select(cols, fromClause) ==
  [type |-> "select", columns |-> cols, from |-> fromClause, limit |-> Limit("", <<>>)]

Cte(n, query) == [name |-> [value |-> n], stmt |-> [ast |-> query]]

Names == <<<<"a">>, <<"b">>, <<"c">>, <<"d">>, <<"e">>, <<"f">>, <<"g">>>>

Digits == <<<<"1">>, <<"2">>, <<"3">>, <<"4">>, <<"5">>, <<"6">>, <<"7">>>>

T == [t |-> <<"t">>, u |-> <<"u">>, x |-> <<"x">>, y |-> <<"y">>,
      gt |-> <<">">>, inner_join |-> <<"I","N","N","E","R"," ","J","O","I","N">>,
      left_join |-> <<"L","E","F","T"," ","J","O","I","N">>,
      union |-> <<"u","n","i","o","n">>,
      union_all |-> <<"u","n","i","o","n"," ","a","l","l">>,
      intersect |-> <<"i","n","t","e","r","s","e","c","t">>,
      count |-> <<"C","O","U","N","T">>,
      fn |-> <<"f","n">>, json |-> <<"j","s","o","n">>,
      exists |-> <<"e","x","i","s","t","s">>]

\* The i-th leaf of a kind: a comparison name_i = i, a BETWEEN over name_i,
\* or a call fn(name_i).
LeafOf(kind, i) ==
  IF kind = 0 THEN Bin(<<"=">>, Col(Names[i]), Num(Digits[i]))
  ELSE IF kind = 1
  THEN Bin(<<"B","E","T","W","E","E","N">>, Col(Names[i]), List(<<Num(Digits[i]),
      Num(Digits[i + 1])>>))
  ELSE Call(T.fn, <<Col(Names[i])>>)

Leaf(i) == LeafOf(0, i)

RECURSIVE LeftDeep(_, _, _)
\* ((l1 op l2) op l3) ... with d operator nodes
LeftDeep(op, kind, d) ==
  IF d = 0 THEN LeafOf(kind, 1)
  ELSE Bin(op, LeftDeep(op, kind, d - 1), LeafOf(kind, d + 1))

RECURSIVE RightDeepFrom(_, _, _, _)
\* li op (... op llast): l1 op (l2 op (l3 ...)) when i is 1
RightDeepFrom(op, kind, i, last) ==
  IF i = last THEN LeafOf(kind, i)
  ELSE Bin(op, LeafOf(kind, i), RightDeepFrom(op, kind, i + 1, last))

\* (l1 op l2) op (l3 op ...): a left chain of two leaves joined to a right chain
Mixed(op, kind, d) ==
  IF d < 3 THEN Bin(op, LeafOf(kind, 1), RightDeepFrom(op, kind, 2, d + 1))
  ELSE Bin(op, Bin(op, LeafOf(kind, 1), LeafOf(kind, 2)), RightDeepFrom(op, kind, 3, d + 1))

(***************************************************************************)
(* Inputs of the expression renderer                                       *)
(***************************************************************************)

\* The deepest AND/OR chain drawn.
MaxDepth == 3

\* The narrowest and the widest keyword column drawn for a context.
MinWidth == 6

MaxWidth == 10

\* How many operand triples the NOT BETWEEN encodings are drawn over.
NumOperands == 3

\* The k-th chain: operator, shape, kind of leaf and depth are the digits of k.
ChainOf(k) ==
  LET op == IF k % 2 = 0 THEN <<"A","N","D">> ELSE <<"O","R">>
      shape == (k \div 2) % 3
      kind == (k \div 6) % 3
      d == (k \div 18) + 1
  IN IF shape = 0 THEN LeftDeep(op, kind, d)
     ELSE IF shape = 1 THEN RightDeepFrom(op, kind, 1, d + 1)
     ELSE Mixed(op, kind, d)

Chains == [k \in 1..(18 * MaxDepth) |-> ChainOf(k - 1)]

\* The bounds v1, v2 of the i-th BETWEEN
Bounds(i) == List(<<Num(Digits[i]), Num(Digits[i + 1])>>)

\* The encodings of x NOT BETWEEN v1 AND v2: (1) a binary node with operator
\* NOT BETWEEN, (2) a NOT unary node wrapping a binary BETWEEN node, (3) a NOT
\* node whose right side is an operator node whose operator is BETWEEN.
NotBetweens ==
  [k \in 1..(3 * NumOperands) |->
     LET i == ((k - 1) \div 3) + 1
         NotBetweenDirect(n) == Bin(<<"N","O","T"," ","B","E","T","W","E","E","N">>, Col(Names[n]),
             Bounds(n))
         NotBetweenUnary(n) == Unary(<<"N","O","T">>, Bin(<<"B","E","T","W","E","E","N">>,
             Col(Names[n]), Bounds(n)))
         NotBetweenNested(n) ==
           [type |-> "binary_expr", operator |-> <<"N","O","T">>, left |-> Col(Names[n]),
            right |-> [operator |-> <<"B","E","T","W","E","E","N">>, right |-> Bounds(n)]]
     IN IF k % 3 = 1 THEN NotBetweenDirect(i)
        ELSE IF k % 3 = 2 THEN NotBetweenUnary(i)
        ELSE NotBetweenNested(i)]

SimpleSelect == Select(<<Column(Col(Names[2]))>>, <<Table(T.u)>>)

\* Nodes whose optional fields are missing or oddly shaped, and unknown kinds.
OddNodes ==
  << [type |-> "binary_expr", operator |-> <<"=">>, left |-> Col(Names[1])],
     [type |-> "number"],
     [type |-> "function", name |-> [name |-> <<[type |-> "default"]>>],
      args |-> List(<<Col(Names[1])>>)],
     Unary(<<"N","O","T">>, Call(T.exists, <<Sub(SimpleSelect)>>)),
     [type |-> "json", value |-> T.json],
     [type |-> "json"] >>

PlainNodes ==
  << Col(Names[1]),
     Col(Names[1]) @@ [table |-> T.t],
     Num(Digits[1]),
     Quote(T.x),
     [type |-> "null"],
     [type |-> "bool", value |-> <<"t","r","u","e">>],
     [type |-> "star"],
     Leaf(1),
     Bin(<<"B","E","T","W","E","E","N">>, Col(Names[1]), Bounds(1)),
     Bin(<<"I","N">>, Col(Names[1]), List(<<Num(Digits[1]), Num(Digits[2]), Num(Digits[3])>>)),
     Bin(<<"I","N">>, Col(Names[1]), List(<<Sub(SimpleSelect)>>)),
     Bin(<<"N","O","T"," ","I","N">>, Col(Names[1]), List(<<Num(Digits[1]), Num(Digits[2])>>)),
     Call(T.exists, <<Sub(SimpleSelect)>>),
     Call(T.fn, <<Col(Names[1]), Num(Digits[2])>>),
     [type |-> "aggr_func", name |-> T.count, args |-> [expr |-> [type |-> "star"]]],
     CaseWhen(Leaf(1), Quote(T.x), Quote(T.y)),
     Bin(<<"A","N","D">>, Leaf(1), Bin(<<"O","R">>, Leaf(2), Leaf(3))),
     Unary(<<"N","O","T">>, Leaf(1)),
     Sub(SimpleSelect) >>

\* The subquery-taking operators over an embedded SELECT, attached directly or
\* as an item of an expression list: IN, ANY, ALL and EXISTS as operators,
\* NOT IN as one operator, NOT over IN/ANY/ALL, and ANY/ALL as calls; and IN
\* over lists of one and of two values.
SubqueryNodes ==
  LET InOp == <<"I","N">>
      AnyOp == <<"A","N","Y">>
      AllOp == <<"A","L","L">>
      NotOp == <<"N","O","T">>
      Filtered == [where |-> Leaf(3)] @@ SimpleSelect
  IN << Bin(InOp, Col(Names[1]), Sub(SimpleSelect)),
        Bin(InOp, Col(Names[1]), List(<<Sub(Filtered)>>)),
        Bin(<<"N","O","T"," ","I","N">>, Col(Names[1]), List(<<Sub(SimpleSelect)>>)),
        Bin(<<"N","O","T"," ","I","N">>, Col(Names[1]), Sub(SimpleSelect)),
        Bin(NotOp, Col(Names[1]), [operator |-> InOp, right |-> List(<<Sub(SimpleSelect)>>)]),
        Bin(NotOp, Col(Names[1]), [operator |-> AnyOp, right |-> Sub(SimpleSelect)]),
        Bin(NotOp, Col(Names[1]), [operator |-> AllOp, right |-> List(<<Sub(Filtered)>>)]),
        Bin(AnyOp, Col(Names[1]), Sub(SimpleSelect)),
        Bin(AllOp, Col(Names[1]), List(<<Sub(SimpleSelect)>>)),
        Bin(<<"E","X","I","S","T","S">>, Col(Names[1]), Sub(SimpleSelect)),
        Bin(<<"=">>, Col(Names[1]), Call(AnyOp, <<Sub(SimpleSelect)>>)),
        Bin(T.gt, Col(Names[1]), Call(AllOp, <<Sub(Filtered)>>)),
        Bin(InOp, Col(Names[1]), List(<<Num(Digits[1])>>)),
        Bin(InOp, Col(Names[1]), List(<<Quote(T.x), Quote(T.y)>>)) >>

\* CASE expressions of one, two and three arms, alone and as the right operand
\* of '=' and of another comparison.
CaseNodes ==
  LET When(n) == [type |-> "when", cond |-> Leaf(n), result |-> Quote(T.x)]
      Else == [type |-> "else", result |-> Quote(T.y)]
      Cases == << [type |-> "case", args |-> <<When(1)>>],
                  [type |-> "case", args |-> <<When(1), Else>>],
                  [type |-> "case", args |-> <<When(1), When(2), Else>>] >>
  IN Cases
     \o [i \in DOMAIN Cases |-> Bin(<<"=">>, Col(Names[1]), Cases[i])]
     \o << Bin(T.gt, Col(Names[1]), Cases[2]) >>

ExprPool == Chains \o NotBetweens \o OddNodes \o PlainNodes \o SubqueryNodes \o CaseNodes

ContextTypes == <<"main", "where_clause", "select_clause", "join_condition">>

\* A context of the given level: one below the root has the root as parent.
ContextOf(level, kind, w) ==
  IndentContext(level, kind, w,
                IF level = 0 THEN NoParent ELSE <<IndentContext(0, "main", w, NoParent, FALSE)>>,
                FALSE)

Options == [keywordCase |-> keywordCase]

InitExpr ==
  /\ pc = "start" /\ derived = NoParent /\ given = <<>> /\ entries = <<>>
  /\ \E i \in DOMAIN ExprPool : expr = ExprPool[i]
  /\ \E level \in 0..1, k \in DOMAIN ContextTypes, w \in MinWidth..MaxWidth :
       ctx = ContextOf(level, ContextTypes[k], w)
  /\ keywordCase \in {"upper", "lower"}
  /\ stmt = Undefined /\ standardFormat = FALSE /\ sql = <<>> /\ parsed = Undefined
  /\ out = <<>> /\ width = 0

\* ExpressionFormatter.formatExpressionWithContext(expr, ctx)
FormatExpression ==
  /\ pc = "start"
  /\ out' = formatExpressionWithContext(expr, ctx, Options)
  /\ pc' = "done"
  /\ UNCHANGED <<stmt, expr, ctx, keywordCase, standardFormat, sql, parsed, width, derived, given, entries>>

NextExpr == FormatExpression

SpecExpr == InitExpr /\ [][NextExpr]_vars

(***************************************************************************)
(* Inputs of the statement renderer and of the analyzer                    *)
(***************************************************************************)

\* How many SELECT statements are generated from clause combinations.
NumGenerated == 144

FromOf(f) ==
  LET QCol(t, n) == Col(n) @@ [table |-> t]
      OnOne == Bin(<<"=">>, QCol(T.t, Names[1]), QCol(T.u, Names[2]))
      OnTwo == Bin(<<"A","N","D">>, OnOne, Bin(<<"=">>, QCol(T.t, Names[3]), QCol(T.u, Names[4])))
  IN
  IF f = 0 THEN <<Table(T.t)>>
  ELSE IF f = 1 THEN <<Table(T.t), JoinTable(T.inner_join, T.u, OnOne)>>
  ELSE IF f = 2 THEN <<Table(T.t), JoinTable(T.left_join, T.u, OnTwo)>>
  ELSE <<Table(T.t), Table(T.u)>>

ColumnsOf(c) ==
  IF c = 0 THEN <<Column(Col(Names[1]))>>
  ELSE IF c = 1 THEN <<Column(Col(Names[1])), Column(Col(Names[2]))>>
  ELSE <<ColumnAs(Col(Names[1]), T.x), Column(Num(Digits[1])),
         ColumnAs(Call(T.fn, <<Col(Names[2])>>), T.y)>>

\* The i-th generated SELECT: the clauses it has are the digits of i.
StmtOf(i) ==
  LET c == i % 3
      f == i % 4
      w == (i \div 4) % 2
      g == (i \div 8) % 3
      ob == (i \div 24) % 2
      l == (i \div 48) % 3
  IN Opt(l = 1, [limit |-> Limit("", <<Num(Digits[1])>>)])
     @@ Opt(l = 2, [limit |-> Limit("offset", <<Num(Digits[1]), Num(Digits[2])>>)])
     @@ Opt(w = 1, [where |-> Bin(<<"A","N","D">>, Leaf(1), Leaf(2))])
     @@ Opt(g >= 1, [groupby |-> [columns |-> <<Col(Names[1])>>]])
     @@ Opt(g = 2, [having |-> Bin(T.gt, Col(Names[1]), Num(Digits[1]))])
     @@ Opt(ob = 1, [orderby |-> <<[expr |-> Col(Names[1]), type |-> "DESC"]>>])
     @@ Select(ColumnsOf(c), FromOf(f))

Generated == [i \in 1..NumGenerated |-> StmtOf(i - 1)]

Plain(n, t) == Select(<<Column(Col(n))>>, <<Table(t)>>)

Grouped(n, t) == [groupby |-> [columns |-> <<Col(n)>>]] @@ Plain(n, t)

Joined(n) == Select(<<Column(Col(n))>>, FromOf(1))

SetOp(op, first, second) == [set_op |-> op, _next |-> second] @@ first

WithStatements ==
  << [with |-> <<Cte(Names[3], Plain(Names[1], T.t))>>] @@ Plain(Names[1], Names[3]),
     [with |-> <<Cte(Names[3], Joined(Names[1])), Cte(Names[4], Plain(Names[2], T.u))>>]
       @@ Grouped(Names[1], Names[3]),
     [with |-> <<Cte(Names[3], Grouped(Names[1], T.t))>>] @@ Plain(Names[1], Names[3]),
     [with |-> <<Cte(Names[3],
                     [with |-> <<Cte(Names[4], Plain(Names[2], T.u))>>]
                       @@ Plain(Names[2], Names[4]))>>]
       @@ Grouped(Names[1], Names[3]),
     [with |-> <<Cte(Names[3],
                     [with |-> <<Cte(Names[4], Joined(Names[2]))>>]
                       @@ Plain(Names[2], Names[4]))>>]
       @@ Plain(Names[1], Names[3]),
     [with |-> <<Cte(Names[3], [where |-> Leaf(1)] @@ Plain(Names[1], T.t))>>]
       @@ ([where |-> Leaf(2)] @@ Plain(Names[2], Names[3])) >>

SetOpStatements ==
  << SetOp(T.union, Plain(Names[1], T.t), Plain(Names[2], T.u)),
     SetOp(T.union_all, Plain(Names[1], T.t), Plain(Names[2], T.u)),
     SetOp(T.intersect, Plain(Names[1], T.t), Plain(Names[2], T.u)),
     SetOp(T.union, Plain(Names[1], T.t), Grouped(Names[2], T.u)),
     SetOp(T.union, Grouped(Names[1], T.t), Plain(Names[2], T.u)) >>

NestedStatements ==
  << Select(<<ColumnAs(Col(Names[1]), T.x),
              ColumnAs(CaseWhen(Leaf(1), Quote(T.x), Quote(T.y)), T.y)>>, <<Table(T.t)>>),
     Select(<<ColumnAs(Sub(Plain(Names[2], T.u)), T.x), ColumnAs(Col(Names[1]), T.y)>>,
            <<Table(T.t)>>),
     Select(<<Column(Col(Names[1]))>>, <<[expr |-> Sub(Plain(Names[2], T.u)), as |-> T.x]>>),
     [where |-> Bin(<<"I","N">>, Col(Names[1]), List(<<Sub(Plain(Names[2], T.u))>>))]
       @@ Plain(Names[1], T.t),
     [where |-> Bin(<<"B","E","T","W","E","E","N">>, Col(Names[1]), Bounds(1))] @@ Plain(Names[1],
         T.t),
     Select(<<Column(CaseWhen(Leaf(1), Quote(T.x), Quote(T.y))), Column(Col(Names[1]))>>,
            <<Table(T.t)>>) >>

\* Statements over a derived table: an inner query of keyword width 6, 8 and
\* 10 under an outer query of width 6, 8 and 10, with and without an alias
\* (sample 25).
DerivedStatements ==
  LET Two(n, m, t) == Select(<<Column(Col(n)), Column(Col(m))>>, <<Table(t)>>)
      From(inner) == Select(<<Column(Col(Names[1]))>>, <<[expr |-> Sub(inner), as |-> T.x]>>)
      Group == [groupby |-> [columns |-> <<Col(Names[1])>>]]
  IN << From(Two(Names[2], Names[3], T.u)),
        From(Group @@ Two(Names[1], Names[2], T.u)),
        From(Select(<<Column(Col(Names[1])), Column(Col(Names[2]))>>, FromOf(1))),
        Group @@ From(Two(Names[2], Names[3], T.u)),
        Group @@ From(Group @@ Plain(Names[1], T.u)),
        Select(<<Column(Col(Names[1]))>>,
               <<[expr |-> Sub(Two(Names[2], Names[3], T.u))], JoinTable(T.inner_join, T.u,
                   Leaf(1))>>) >>

\* A WITH payload that is no list: the CTE object itself.
NotAList(cte) == 0 :> cte

\* Statements whose WITH payload is no list; the CTE body the payload holds
\* has wider keywords than some of the statements.
MalformedStatements ==
  LET Bodies == <<Plain(Names[2], T.u), Grouped(Names[2], T.u), Joined(Names[2])>>
      Mains == <<Plain(Names[1], T.t), Grouped(Names[1], T.t), Joined(Names[1]),
                 [where |-> Leaf(1)] @@ Plain(Names[1], T.t),
                 SetOp(T.union, Plain(Names[1], T.t), Plain(Names[2], T.u)),
                 Select(<<Column(Col(Names[1]))>>,
                        <<[expr |-> Sub(Plain(Names[2], T.u)), as |-> T.x]>>)>>
  IN [i \in 1..(Len(Bodies) * Len(Mains)) |->
        [with |-> NotAList(Cte(Names[3], Bodies[((i - 1) % Len(Bodies)) + 1]))]
          @@ Mains[((i - 1) \div Len(Bodies)) + 1]]

StmtPool ==
  Generated \o WithStatements \o SetOpStatements \o NestedStatements \o DerivedStatements

\* Statements of the other kinds the analyzer knows, and one it does not.
OtherStatements ==
  << [type |-> "update", set |-> <<Leaf(1)>>, where |-> Leaf(2)],
     [type |-> "update", set |-> <<Leaf(1)>>],
     [type |-> "delete", where |-> Leaf(1)],
     [type |-> "delete"],
     [type |-> "insert", values |-> <<Num(Digits[1])>>],
     [type |-> "insert"],
     [type |-> "create"],
     [type |-> "create", with |-> <<Cte(Names[3], Plain(Names[1], T.t))>>],
     [type |-> "create", with |-> <<[name |-> [value |-> Names[3]]]>>] >>

(***************************************************************************)
(* The analyzer applied to a statement                                     *)
(***************************************************************************)

AnalyzerPool == StmtPool \o OtherStatements

InitWidth ==
  /\ pc = "start" /\ derived = NoParent /\ given = <<>> /\ entries = <<>>
  /\ \E i \in DOMAIN AnalyzerPool : stmt = AnalyzerPool[i]
  /\ keywordCase = "upper" /\ standardFormat = FALSE
  /\ ctx = IndentContext(0, "main", 0, NoParent, FALSE)
  /\ expr = Undefined /\ sql = <<>> /\ parsed = Undefined /\ out = <<>> /\ width = 0

\* FormatterUtils.calculateGlobalMaxKeywordLength(stmt)
CalculateGlobal ==
  /\ pc = "start"
  /\ width' = calculateGlobalMaxKeywordLength(stmt)
  /\ pc' = "global"
  /\ UNCHANGED <<stmt, expr, ctx, keywordCase, standardFormat, sql, parsed, out, derived, given, entries>>

\* calculateSubqueryKeywordLength(stmt)
CalculateSubquery ==
  /\ pc = "start"
  /\ width' = calculateSubqueryKeywordLength(stmt)
  /\ pc' = "subquery"
  /\ UNCHANGED <<stmt, expr, ctx, keywordCase, standardFormat, sql, parsed, out, derived, given, entries>>

NextWidth == CalculateGlobal \/ CalculateSubquery

SpecWidth == InitWidth /\ [][NextWidth]_vars

(***************************************************************************)
(* The statement renderer applied to a SELECT statement under the root     *)
(* context: level 0, kind main, the analyzer's width for the statement     *)
(***************************************************************************)

RootContext(s) == IndentContext(0, "main", calculateGlobalMaxKeywordLength(s), NoParent, FALSE)

InitStmt ==
  /\ pc = "start" /\ derived = NoParent /\ given = <<>> /\ entries = <<>>
  /\ \E i \in DOMAIN StmtPool : stmt = StmtPool[i] /\ ctx = RootContext(StmtPool[i])
  /\ keywordCase \in {"upper", "lower"}
  /\ standardFormat \in BOOLEAN
  /\ expr = Undefined /\ sql = <<>> /\ parsed = Undefined /\ out = <<>> /\ width = 0

\* SelectFormatter.formatSelectStatementWithContext(stmt, ctx, standardFormat)
FormatSelectStatement ==
  /\ pc = "start"
  /\ out' = formatSelectStatementWithContext(stmt, ctx, standardFormat, Options)
  /\ pc' = "done"
  /\ UNCHANGED <<stmt, expr, ctx, keywordCase, standardFormat, sql, parsed, width, derived, given, entries>>

\* SelectFormatter.formatSelectClauseWithContext(stmt, actualContext, standardFormat)
FormatSelectClause ==
  /\ pc = "start"
  /\ out' = formatSelectClauseWithContext(stmt, actualContext(stmt, ctx), standardFormat, Options)
  /\ pc' = "clause"
  /\ UNCHANGED <<stmt, expr, ctx, keywordCase, standardFormat, sql, parsed, width, derived, given, entries>>

\* SelectFormatter.formatTableWithContext(stmt.from[0], actualContext, standardFormat)
FormatTable ==
  /\ pc = "start"
  /\ Has(stmt, "from") /\ Len(stmt.from) >= 1
  /\ out' = formatTableWithContext(stmt.from[1], actualContext(stmt, ctx), standardFormat,
                                   Options)
  /\ derived' = IF Has(stmt.from[1], "expr") /\ Has(stmt.from[1].expr, "ast")
                THEN <<subqueryContextOfTable(stmt.from[1], actualContext(stmt, ctx))>>
                ELSE NoParent
  /\ pc' = "table"
  /\ UNCHANGED <<stmt, expr, ctx, keywordCase, standardFormat, sql, parsed, width, given,
                 entries>>

NextStmt == FormatSelectStatement \/ FormatSelectClause \/ FormatTable

SpecStmt == InitStmt /\ [][NextStmt]_vars

\* A statement whose WITH payload is no list, under the root context of its
\* width and under the context of a subquery.
InitMalformed ==
  /\ pc = "start" /\ derived = NoParent /\ given = <<>> /\ entries = <<>>
  /\ \E i \in DOMAIN MalformedStatements :
       /\ stmt = MalformedStatements[i]
       /\ \/ ctx = RootContext(MalformedStatements[i])
          \/ \E w \in MinWidth..MaxWidth :
               ctx = IndentContext(1, "subquery", w, <<RootContext(MalformedStatements[i])>>,
                                   FALSE)
  /\ keywordCase \in {"upper", "lower"}
  /\ standardFormat \in BOOLEAN
  /\ expr = Undefined /\ sql = <<>> /\ parsed = Undefined /\ out = <<>> /\ width = 0

SpecMalformed == InitMalformed /\ [][NextStmt]_vars

(***************************************************************************)
(* SqlFormatter: the renderer behind formatSql                             *)
(*                                                                         *)
(* formatKeyword, formatColumnRef, handleUnknownExpression,                *)
(* flattenAndOrConditions, countAndKeywords, collectKeywordsFromStatement  *)
(* and calculateGlobalMaxKeywordLength of SqlFormatter have the bodies of  *)
(* the operators of the same names above.  The sentences drawn below parse *)
(* to SELECT statements with column, number and binary expressions, one    *)
(* table in FROM, and WITH, WHERE and GROUP BY; the operators model the    *)
(* branches these statements take.                                         *)
(***************************************************************************)

RECURSIVE formatExpression(_, _, _, _)

\* columns.map(col => this.formatExpression(col, depth + 1, maxKeywordLength)).join(', ')
formatColumnList(columns, depth, maxKeywordLength, o) ==
  JoinS([i \in DOMAIN columns |->
           formatExpression(columns[i], depth + 1, maxKeywordLength, o)], <<",", " ">>)

formatBinaryExpression(e, depth, maxKeywordLength, o) ==
  LET Condition(conditionStr, index) ==
        IF index = 1 THEN conditionStr
        ELSE Str(<<Spaces(maxKeywordLength - Len(Op(e))), Op(e), <<" ">>, conditionStr>>)
      Conditions(conditions) ==
        JoinS([index \in DOMAIN conditions |->
                 Condition(formatExpression(conditions[index], 1, maxKeywordLength, o), index)],
              NL)
  IN IF Op(e) = <<"=">> /\ ~Has(e, "right") THEN Thrown
     ELSE IF Op(e) \in {<<"A","N","D">>, <<"O","R">>} /\ depth = 0 /\ maxKeywordLength # 0
          THEN Conditions(flattenAndOrConditions(e, Op(e)))
          ELSE Str(<<formatExpression(Field(e, "left"), depth + 1, maxKeywordLength, o),
                     <<" ">>, Op(e), <<" ">>,
                     formatExpression(Field(e, "right"), depth + 1, maxKeywordLength, o)>>)

\* switch (expr.type)
formatExpression(e, depth, maxKeywordLength, o) ==
  IF IsUndefined(e) THEN <<>>
  ELSE CASE TypeOf(e) = "column_ref" -> formatColumnRef(e)
         [] TypeOf(e) = "binary_expr" -> formatBinaryExpression(e, depth, maxKeywordLength, o)
         [] TypeOf(e) = "single_quote_string" -> Str(<<<<"'">>, ValueText(e), <<"'">>>>)
         [] TypeOf(e) = "number" -> IF Has(e, "value") THEN e.value ELSE Thrown
         [] TypeOf(e) = "undefined" /\ Has(e, "columns") ->
              formatColumnList(e.columns, depth, maxKeywordLength, o)
         [] OTHER -> handleUnknownExpression(e)

formatColumn(col, maxKeywordLength, o) ==
  LET Alias(result) ==
        IF Has(col, "as") THEN Str(<<result, <<" ">>, <<"A","S">>, <<" ">>, col.as>>)
        ELSE result
  IN Alias(formatExpression(IF Has(col, "expr") THEN col.expr ELSE col,
                            0, maxKeywordLength, o))

formatSelectClause(s, maxKeywordLength, o) ==
  LET Line(formattedColumns, i) ==
        IF i = 1 THEN Str(<<Spaces(maxKeywordLength + 1), formattedColumns[1]>>)
        ELSE Str(<<Spaces(Max(0, maxKeywordLength - 1)), <<",", " ">>, formattedColumns[i]>>)
      Clause(keyword, formattedColumns) ==
        IF Len(formattedColumns) = 1 THEN Str(<<keyword, <<" ">>, formattedColumns[1]>>)
        ELSE JoinS(<<PadStart(keyword, maxKeywordLength)>>
                     \o [i \in DOMAIN formattedColumns |-> Line(formattedColumns, i)], NL)
  IN IF ~Has(s, "columns") \/ Len(s.columns) = 0
     THEN formatKeyword(<<"S","E","L","E","C","T">>, o)
     ELSE Clause(formatKeyword(<<"S","E","L","E","C","T">>, o),
                 [i \in DOMAIN s.columns |-> formatColumn(s.columns[i], maxKeywordLength, o)])

formatTable(table) ==
  IF Has(table, "as") THEN Str(<<table.table, <<" ">>, <<"A","S">>, <<" ">>, table.as>>)
  ELSE table.table

\* fromClause.length === 1 && !hasJoin
formatFromClause(fromClause, maxKeywordLength, o) ==
  Str(<<PadStart(formatKeyword(<<"F","R","O","M">>, o), maxKeywordLength), <<" ">>,
        formatTable(fromClause[1])>>)

formatWhereClause(whereClause, maxKeywordLength, o) ==
  Str(<<PadStart(formatKeyword(<<"W","H","E","R","E">>, o), maxKeywordLength), <<" ">>,
        formatExpression(whereClause, 0, maxKeywordLength, o)>>)

formatGroupByClause(groupByClause, maxKeywordLength, o) ==
  LET list == IF IsArray(groupByClause) THEN groupByClause.items ELSE <<groupByClause>>
  IN Str(<<PadStart(formatKeyword(<<"G","R","O","U","P"," ","B","Y">>, o), maxKeywordLength),
      <<" ">>,
           JoinS([i \in DOMAIN list |-> formatExpression(list[i], 0, maxKeywordLength, o)],
                 <<",", " ">>)>>)

RECURSIVE formatSelectStatementWithKeywordLength(_, _, _)

formatWithClause(withClause, maxKeywordLength, o) ==
  LET CteLines(index) ==
        LET cte == withClause[index]
            cteQuery == CteQuery(cte)
        IN <<IF index = 1
             THEN Str(<<formatKeyword(<<"W","I","T","H">>, o), <<" ">>, CteName(cte), <<" ">>,
                 <<"A","S">>, <<" ">>, <<"(">>>>)
             ELSE Str(<<<<",", " ">>, CteName(cte), <<" ">>, <<"A","S">>, <<" ">>, <<"(">>>>)>>
           \o (IF IsUndefined(cteQuery) THEN <<>>
               ELSE <<formatSelectStatementWithKeywordLength(cteQuery, maxKeywordLength, o)>>)
           \o <<<<")">>>>
  IN JoinS(Concat([index \in DOMAIN withClause |-> CteLines(index)]), NL)

formatSelectStatementWithKeywordLength(s, maxKeywordLength, o) ==
  JoinS(
    (IF Has(s, "with") THEN <<formatWithClause(s.with, maxKeywordLength, o)>> ELSE <<>>)
    \o <<formatSelectClause(s, maxKeywordLength, o)>>
    \o (IF Has(s, "from") THEN <<formatFromClause(s.from, maxKeywordLength, o)>> ELSE <<>>)
    \o (IF Has(s, "where") THEN <<formatWhereClause(s.where, maxKeywordLength, o)>> ELSE <<>>)
    \o (IF Has(s, "groupby")
        THEN <<formatGroupByClause(s.groupby, maxKeywordLength, o)>> ELSE <<>>)
    \o (IF Has(s, "_next") /\ Has(s, "set_op")
        THEN <<PadStart(formatKeyword(toUpperCase(s.set_op), o), maxKeywordLength),
               formatSelectStatementWithKeywordLength(s._next, maxKeywordLength, o)>>
        ELSE <<>>),
    NL)

formatSelectStatement(s, o) ==
  formatSelectStatementWithKeywordLength(s, calculateGlobalMaxKeywordLength(s), o)

\* switch (stmt.type): of the ten cases the one of a SELECT statement is
\* modelled; a kind outside the ten cases raises.
formatStatement(s, o) ==
  IF TypeOf(s) = "select" THEN formatSelectStatement(s, o) ELSE Thrown

\* \w of a regular expression
IsWordChar(c) ==
  \/ IndexOf(UpperLetters, c) # 0 \/ IndexOf(LowerLetters, c) # 0 \/ c = "_"
  \/ c \in {"0", "1", "2", "3", "4", "5", "6", "7", "8", "9"}

\* The punctuation marks that are tokens of their own.
Punctuation == {"(", ")", ",", ";"}

\* The index at which the longest run of characters of a class that starts at
\* index from ends; from - 1 when the run is empty.  A greedy \s*, \w+ or \s+
\* followed by a term of a disjoint character class matches this run.  The
\* classes are white space, word characters and the characters of a token.
RunEnd(text, from, class) ==
  LET P(c) == CASE class = "space" -> IsSpace(c)
                [] class = "word" -> IsWordChar(c)
                [] OTHER -> ~IsSpace(c) /\ c \notin Punctuation
  IN CHOOSE n \in (from - 1)..Len(text) :
       /\ \A j \in from..n : P(text[j])
       /\ n = Len(text) \/ ~P(text[n + 1])

\* The pattern occurs in the text at index i.
OccursAt(text, i, pattern) ==
  i + Len(pattern) - 1 <= Len(text) /\ SubSeq(text, i, i + Len(pattern) - 1) = pattern

CommentOpen == <<"/", "*">>

CommentClose == <<"*", "/">>

\* sql.match(/^(\s*)(\w+)(\s*)(\/\*.*?\*\/)(.*)$/s); a hint of null is the
\* empty text, which the test if (hint) treats alike.
extractHintComment(text) ==
  LET Cut(space, close) ==
        [sql |-> SubSeq(text, 1, space) \o SubSeq(text, close + 2, Len(text)),
         hint |-> SubSeq(text, space + 1, close + 1)]
      Hint(space, closes) ==
        IF closes # {} THEN Cut(space, CHOOSE q \in closes : \A r \in closes : q <= r)
        ELSE [sql |-> text, hint |-> <<>>]
      Comment(leading, keyword, space) ==
        IF keyword > leading /\ OccursAt(text, space + 1, CommentOpen)
        THEN Hint(space, {q \in (space + 3)..Len(text) : OccursAt(text, q, CommentClose)})
        ELSE [sql |-> text, hint |-> <<>>]
      Word(leading, keyword) == Comment(leading, keyword, RunEnd(text, keyword + 1, "space"))
      Leading(leading) == Word(leading, RunEnd(text, leading + 1, "word"))
  IN Leading(RunEnd(text, 1, "space"))

RECURSIVE GetSubstitution(_, _, _, _)
\* The replacement text String.prototype.replace inserts for a string
\* pattern: $$ is a dollar sign, $& the matched text, $ and a grave accent the
\* text before the match, $' the text after it; any other $ stands for itself.
GetSubstitution(matched, str, position, replacement) ==
  IF replacement = <<>> THEN <<>>
  ELSE IF replacement[1] = "$" /\ Len(replacement) >= 2
          /\ replacement[2] \in {"$", "&", "'", Backtick[1]}
       THEN (CASE replacement[2] = "$" -> <<"$">>
               [] replacement[2] = "&" -> matched
               [] replacement[2] = "'" -> SubSeq(str, position + Len(matched), Len(str))
               [] OTHER -> SubSeq(str, 1, position - 1))
            \o GetSubstitution(matched, str, position, SubSeq(replacement, 3, Len(replacement)))
       ELSE <<replacement[1]>> \o GetSubstitution(matched, str, position, Tail(replacement))

\* str.replace(searchValue, replaceValue) with a string searchValue
replace(str, searchValue, replaceValue) ==
  LET Splice(position) ==
        SubSeq(str, 1, position - 1)
        \o GetSubstitution(searchValue, str, position, replaceValue)
        \o SubSeq(str, position + Len(searchValue), Len(str))
  IN IF \E i \in 1..(Len(str) + 1) : OccursAt(str, i, searchValue)
     THEN Splice(CHOOSE i \in 1..(Len(str) + 1) :
                   /\ OccursAt(str, i, searchValue)
                   /\ \A j \in 1..(i - 1) : ~OccursAt(str, j, searchValue))
     ELSE str

\* sql.match(/^(\s*)(\w+)(\s+)/)
restoreHintComment(text, hint) ==
  LET Restore(leading, keyword, space) ==
        IF keyword > leading /\ space > keyword
        THEN replace(text, SubSeq(text, 1, space),
                     SubSeq(text, 1, keyword) \o <<" ">> \o hint
                       \o SubSeq(text, keyword + 1, space))
        ELSE text
      Word(leading, keyword) == Restore(leading, keyword, RunEnd(text, keyword + 1, "space"))
      Leading(leading) == Word(leading, RunEnd(text, leading + 1, "word"))
  IN Leading(RunEnd(text, 1, "space"))

(***************************************************************************)
(* The parser and formatSql                                                *)
(*                                                                         *)
(* Parser.astify belongs to the library node-sql-parser.  It is modelled   *)
(* on the sentences below: a text that has the tokens of one of them,      *)
(* whatever its white space and letter case and with or without a final    *)
(* semicolon, parses to the AST of that sentence, and any other text is    *)
(* rejected.  AND binds tighter than OR, and a parenthesised operand is    *)
(* the operand of the operator outside the parentheses.                    *)
(***************************************************************************)

RECURSIVE Lex(_)
\* The tokens of a text: punctuation marks and runs of other characters.
Lex(text) ==
  LET Token(n) == <<SubSeq(text, 1, n)>> \o Lex(SubSeq(text, n + 1, Len(text)))
  IN IF text = <<>> THEN <<>>
     ELSE IF IsSpace(text[1]) THEN Lex(Tail(text))
     ELSE IF text[1] \in Punctuation THEN <<<<text[1]>>>> \o Lex(Tail(text))
     ELSE Token(RunEnd(text, 1, "token"))

\* The condition a = 1, b = 2 or c = 3.
Cond(i) == Bin(<<"=">>, Col(Names[i]), Num(Digits[i]))

Parenthesised(e) == [parentheses |-> TRUE] @@ e

Sentences ==
  LET select == <<"s","e","l","e","c","t">>
      from == <<"f","r","o","m">>
      where == <<"w","h","e","r","e">>
      as == <<"a","s">>
      and == <<"a","n","d">>
      or == <<"o","r">>
      a == <<"a">>
      b == <<"b">>
      c == <<"c">>
      t == <<"t">>
      comma == <<",">>
      Eq(i) == <<Names[i], <<"=">>, Digits[i]>>
      Text(words) == Join(words, <<" ">>)
      One(table) == Select(<<Column(Col(a))>>, <<Table(table)>>)
      Two(table) == Select(<<Column(Col(a)), Column(Col(b))>>, <<Table(table)>>)
  IN << [text |-> Text(<<select, a, from, t>>), ast |-> One(t)],
        [text |-> Text(<<select, a \o comma, b, from, t>>), ast |-> Two(t)],
        [text |-> Text(<<select, a, as, <<"x">> \o comma, b, from, t>>),
         ast |-> Select(<<ColumnAs(Col(a), <<"x">>), Column(Col(b))>>, <<Table(t)>>)],
        [text |-> Text(<<select, a, from, t, where>> \o Eq(1)),
         ast |-> [where |-> Cond(1)] @@ One(t)],
        [text |-> Text(<<select, a, from, t, where>> \o Eq(1) \o <<and>> \o Eq(2)),
         ast |-> [where |-> Bin(<<"A","N","D">>, Cond(1), Cond(2))] @@ One(t)],
        [text |-> Text(<<select, a, from, t, where, <<"(">>>> \o Eq(1) \o <<or>> \o Eq(2)
                         \o <<<<")">>, and>> \o Eq(3)),
         ast |-> [where |-> Bin(<<"A","N","D">>,
                                Parenthesised(Bin(<<"O","R">>, Cond(1), Cond(2))), Cond(3))]
                   @@ One(t)],
        [text |-> Text(<<select, a, from, t, where>> \o Eq(1) \o <<or>> \o Eq(2)
                         \o <<and>> \o Eq(3)),
         ast |-> [where |-> Bin(<<"O","R">>, Cond(1), Bin(<<"A","N","D">>, Cond(2), Cond(3)))]
                   @@ One(t)],
        [text |-> Text(<<select, a, from, t, where>> \o Eq(1) \o <<or, <<"(">>>> \o Eq(2)
                         \o <<and>> \o Eq(3) \o <<<<")">>>>),
         ast |-> [where |-> Bin(<<"O","R">>, Cond(1),
                                Parenthesised(Bin(<<"A","N","D">>, Cond(2), Cond(3))))]
                   @@ One(t)],
        [text |-> Text(<<select, a \o comma, b, from, t,
                         <<"g","r","o","u","p"," ","b","y">>, a>>),
         ast |-> [groupby |-> [columns |-> <<Col(a)>>]] @@ Two(t)],
        [text |-> Text(<<<<"w","i","t","h">>, c, as, <<"(">>, select, a, from, t, <<")">>,
                         select, a, from, c>>),
         ast |-> [with |-> <<Cte(c, One(t))>>] @@ One(c)],
        [text |-> Text(<<select, a, from, t, <<"u","n","i","o","n">>, select, a, from,
                         <<"u">>>>),
         ast |-> SetOp(<<"u","n","i","o","n">>, One(t), One(<<"u">>))],
        [text |-> Text(<<<<"u","s","e">>, t>>), ast |-> [type |-> "use", db |-> t]] >>

RECURSIVE SplitStatements(_)
\* The token lists of the statements of a text: the tokens between semicolons.
SplitStatements(tokens) ==
  LET Split(i) == IF i = 0 THEN <<tokens>>
                  ELSE <<SubSeq(tokens, 1, i - 1)>>
                         \o SplitStatements(SubSeq(tokens, i + 1, Len(tokens)))
  IN Split(IndexOf(tokens, <<";">>))

\* this.parser.astify(cleanSql, { database: 'Postgresql' }): the list of the
\* statements of the text, or a rejection.  A text without a token has no
\* statement.
astify(text) ==
  LET Key(tokens) == IF Len(tokens) > 0 /\ tokens[Len(tokens)] = <<";">>
                     THEN SubSeq(tokens, 1, Len(tokens) - 1) ELSE tokens
      Statements(tokens) == IF Len(tokens) = 0 THEN <<>> ELSE SplitStatements(tokens)
      Matches(sentences, key) ==
        {i \in DOMAIN sentences : Lex(toUpperCase(sentences[i].text)) = key}
      Parse(sentences, keys) ==
        IF \A k \in DOMAIN keys : Matches(sentences, keys[k]) # {}
        THEN [statements |->
                [k \in DOMAIN keys |->
                   sentences[CHOOSE i \in Matches(sentences, keys[k]) : TRUE].ast]]
        ELSE [error |-> TRUE]
  IN Parse(Sentences, Statements(Key(Lex(toUpperCase(text)))))

\* formatSql with a catch that returns the text given to the parser, without
\* the hint, instead of the input.
formatSqlCleaned(text, o) ==
  LET Finish(restored) ==
        IF EndsWith(restored, <<";">>) THEN restored ELSE restored \o <<";">>
      Restore(result, extracted) ==
        IF IsThrown(result) THEN extracted.sql
        ELSE Finish(IF extracted.hint # <<>>
                    THEN restoreHintComment(result, extracted.hint) ELSE result)
      Render(ast, extracted) ==
        IF Has(ast, "error") THEN extracted.sql
        ELSE IF Len(ast.statements) = 0 THEN extracted.sql
        ELSE Restore(JoinS([i \in DOMAIN ast.statements |->
                              formatStatement(ast.statements[i], o)], NL \o NL), extracted)
      Parse(extracted) == Render(astify(extracted.sql), extracted)
  IN Parse(extractHintComment(text))

\* formatSql with a terminator after every statement.
formatSqlEachTerminated(text, o) ==
  LET Restore(result, hint) ==
        IF IsThrown(result) THEN text
        ELSE IF hint # <<>> THEN restoreHintComment(result, hint) ELSE result
      Render(ast, hint) ==
        IF Has(ast, "error") THEN text
        ELSE IF Len(ast.statements) = 0 THEN text
        ELSE Restore(JoinS([i \in DOMAIN ast.statements |->
                              Str(<<formatStatement(ast.statements[i], o), <<";">>>>)],
                           NL \o NL), hint)
      Parse(extracted) == Render(astify(extracted.sql), extracted.hint)
  IN Parse(extractHintComment(text))

\* SqlFormatter.formatSql: whatever is raised inside is caught and the input
\* is returned.
formatSql(text, o) ==
  LET Finish(restored) ==
        IF EndsWith(restored, <<";">>) THEN restored ELSE restored \o <<";">>
      Restore(result, hint) ==
        IF IsThrown(result) THEN text
        ELSE Finish(IF hint # <<>> THEN restoreHintComment(result, hint) ELSE result)
      Render(ast, hint) ==
        IF Has(ast, "error") THEN text
        ELSE IF Len(ast.statements) = 0 THEN text
        ELSE Restore(JoinS([i \in DOMAIN ast.statements |->
                              formatStatement(ast.statements[i], o)], NL \o NL), hint)
      Parse(extracted) == Render(astify(extracted.sql), extracted.hint)
  IN Parse(extractHintComment(text))

(***************************************************************************)
(* Formatting a text: the input is a sentence, possibly with white space   *)
(* before it and a comment after its first word.                           *)
(***************************************************************************)

Hints ==
  << <<"/","*"," ","h"," ","*","/">>,
     <<"/","*","$","&","*","/">>,
     <<"/","*"," ","$","$"," ","*","/">>,
     <<"/","*"," ","$","1"," ","*","/">> >>

\* The sentence with white space lead before it and, when h is not 0, the
\* h-th hint after its first word, between the white space before and after.
InputOf(text, lead, h, before, after) ==
  LET Hinted(word) == lead \o SubSeq(text, 1, word) \o before \o Hints[h] \o after
                        \o SubSeq(text, word + 2, Len(text))
  IN IF h = 0 THEN lead \o text ELSE Hinted(RunEnd(text, 1, "word"))

\* The inputs: every sentence alone, the text without a statement, and texts
\* of several statements, one of them with a statement of a kind outside the
\* statement dispatch.
Scripts ==
  [i \in DOMAIN Sentences |-> <<i>>]
    \o << <<>>, <<1, 2>>, <<2, 4, 1>>, <<1, 12>>, <<12, 1>> >>

\* The text of a script: its sentences, each but the last closed by a semicolon.
ScriptText(script, sentences) ==
  Join([i \in DOMAIN script |-> sentences[script[i]].text], <<";", " ">>)

InitSql ==
  /\ pc = "start" /\ derived = NoParent /\ given = <<>> /\ entries = <<>>
  /\ \E s \in DOMAIN Scripts, h \in 0..Len(Hints),
        lead \in {<<>>, <<" ">>}, before \in {<<>>, <<" ">>}, after \in {<<>>, <<" ">>} :
       /\ Len(Scripts[s]) = 0 => h = 0
       /\ sql = InputOf(ScriptText(Scripts[s], Sentences), lead, h, before, after)
  /\ keywordCase \in {"upper", "lower"}
  /\ stmt = Undefined /\ expr = Undefined /\ standardFormat = FALSE
  /\ ctx = IndentContext(0, "main", 0, NoParent, FALSE)
  /\ parsed = Undefined /\ out = <<>> /\ width = 0

\* formatSql(sql)
FormatSql ==
  /\ pc = "start"
  /\ parsed' = astify(extractHintComment(sql).sql)
  /\ out' = formatSql(sql, Options)
  /\ pc' = "done"
  /\ UNCHANGED <<stmt, expr, ctx, keywordCase, standardFormat, sql, width, derived, given, entries>>

\* formatSql of the text the previous call returned
FormatAgain ==
  /\ pc = "done"
  /\ sql' = out
  /\ parsed' = astify(extractHintComment(out).sql)
  /\ out' = formatSql(out, Options)
  /\ pc' = "again"
  /\ UNCHANGED <<stmt, expr, ctx, keywordCase, standardFormat, width, derived, given, entries>>

NextSql == FormatSql \/ FormatAgain

SpecSql == InitSql /\ [][NextSql]_vars

(***************************************************************************)
(* The operations of an indent context: from a root context of a render,  *)
(* contexts are derived and entered down to MaxNest levels; at each one    *)
(* the indent queries are asked and an embedded expression is rendered.    *)
(***************************************************************************)

MaxNest == 2

\* IndentContextType
IndentContextTypes ==
  {"main", "select_clause", "where_clause", "case_when", "function_arg", "subquery",
   "join_condition"}

\* Expressions that make the formatter derive a context of each kind: CASE
\* (sibling), a function call (child) and subqueries whose own keyword width
\* is 6 (SELECT) and 10 (INNER JOIN).
Embedded ==
  << CaseWhen(Leaf(1), Quote(T.x), Quote(T.y)),
     Call(T.fn, <<Col(Names[1])>>),
     Sub(SimpleSelect),
     Sub(Joined(Names[1])) >>

\* The widths of the subqueries' own keywords.
SubqueryWidths ==
  {calculateSubqueryKeywordLength(Embedded[i].ast) :
     i \in {j \in DOMAIN Embedded : Has(Embedded[j], "ast")}}

DerivePcs == {"createChildContext", "createSiblingContext", "createSubqueryContext",
              "formatSubqueryWithContext", "formatTableWithContext",
              "formatWithClauseWithContext", "formatSelectStatementWithContext"}

InitCtx ==
  /\ pc = "start" /\ derived = NoParent /\ given = <<>> /\ entries = <<>>
  /\ \E first \in BOOLEAN :
       ctx = IndentContext(0, "main", calculateGlobalMaxKeywordLength(SimpleSelect), NoParent,
                           first)
  /\ keywordCase = "upper" /\ standardFormat = FALSE
  /\ stmt = Undefined /\ expr = Undefined /\ sql = <<>> /\ parsed = Undefined
  /\ out = <<>> /\ width = 0

\* ctx.createChildContext(childType)
CreateChildContext ==
  /\ pc = "start" /\ ctx.nestLevel < MaxNest
  /\ \E childType \in IndentContextTypes :
       derived' = <<createChildContext(ctx, childType)>> /\ given' = <<childType>>
  /\ pc' = "createChildContext"
  /\ UNCHANGED <<stmt, expr, ctx, keywordCase, standardFormat, sql, parsed, out, width, entries>>

\* ctx.createSiblingContext(siblingType)
CreateSiblingContext ==
  /\ pc = "start"
  /\ \E siblingType \in IndentContextTypes :
       derived' = <<createSiblingContext(ctx, siblingType)>> /\ given' = <<siblingType>>
  /\ pc' = "createSiblingContext"
  /\ UNCHANGED <<stmt, expr, ctx, keywordCase, standardFormat, sql, parsed, out, width, entries>>

\* ctx.createSubqueryContext(subqueryBaseLength)
CreateSubqueryContext ==
  /\ pc = "start" /\ ctx.nestLevel < MaxNest
  /\ \E subqueryBaseLength \in SubqueryWidths :
       derived' = <<createSubqueryContext(ctx, subqueryBaseLength)>>
       /\ given' = <<subqueryBaseLength>>
  /\ pc' = "createSubqueryContext"
  /\ UNCHANGED <<stmt, expr, ctx, keywordCase, standardFormat, sql, parsed, out, width, entries>>

\* ctx.getContextIndent()
GetContextIndent ==
  /\ pc = "start"
  /\ width' = getContextIndent(ctx)
  /\ pc' = "getContextIndent"
  /\ UNCHANGED <<stmt, expr, ctx, keywordCase, standardFormat, sql, parsed, out, derived,
                 given, entries>>

\* ctx.getClosingIndent()
GetClosingIndent ==
  /\ pc = "start"
  /\ width' = getClosingIndent(ctx)
  /\ pc' = "getClosingIndent"
  /\ UNCHANGED <<stmt, expr, ctx, keywordCase, standardFormat, sql, parsed, out, derived,
                 given, entries>>

\* An expression arrives to be rendered under ctx.
Receive ==
  /\ pc = "start"
  /\ \E i \in DOMAIN Embedded : expr' = Embedded[i]
  /\ pc' = "received"
  /\ UNCHANGED <<stmt, ctx, keywordCase, standardFormat, sql, parsed, out, width, derived,
                 given, entries>>

\* A render that writes the kind of its arguments into the context it was
\* given instead of deriving a context for them.
FormatEmbeddedInPlace ==
  /\ pc = "received"
  /\ out' = formatExpressionWithContext(expr, ctx, Options)
  /\ ctx' = [ctx EXCEPT !.contextType = "function_arg"]
  /\ pc' = "rendered"
  /\ UNCHANGED <<stmt, expr, keywordCase, standardFormat, sql, parsed, width, derived, given, entries>>

\* ExpressionFormatter.formatExpressionWithContext(expr, ctx)
FormatEmbedded ==
  /\ pc = "received"
  /\ out' = formatExpressionWithContext(expr, ctx, Options)
  /\ pc' = "rendered"
  /\ UNCHANGED <<stmt, expr, ctx, keywordCase, standardFormat, sql, parsed, width, derived,
                 given, entries>>

\* The context formatSubqueryWithContext renders the statement of the
\* subquery expr under, called as every caller does with
\* ctx.createSubqueryContext(6).
FormatSubquery ==
  /\ pc = "received" /\ Has(expr, "ast") /\ ctx.nestLevel < MaxNest
  /\ derived' = <<dynamicSubqueryContext(expr.ast, createSubqueryContext(ctx, 6))>>
  /\ given' = <<calculateSubqueryKeywordLength(expr.ast)>>
  /\ pc' = "formatSubqueryWithContext"
  /\ UNCHANGED <<stmt, expr, ctx, keywordCase, standardFormat, sql, parsed, out, width, entries>>

\* The statements with a WITH list whose keywords, those of the CTE bodies
\* included, are no longer than SELECT.
NarrowStatements ==
  SelectSeq(WithStatements, LAMBDA s : calculateGlobalMaxKeywordLength(s) = 6)

\* The contexts a statement is rendered under: the root, a CTE body, a subquery.
IsStatementContext(c) == c.contextType \in {"main", "subquery"}

\* The context formatTableWithContext renders the statement of the derived
\* table expr under; its caller passes the context of the statement.
FormatDerivedTable ==
  /\ pc = "received" /\ Has(expr, "ast") /\ ctx.nestLevel < MaxNest
  /\ IsStatementContext(ctx)
  /\ derived' = <<subqueryContextOfTable([expr |-> expr], ctx)>>
  /\ given' = <<calculateSubqueryKeywordLength(expr.ast)>>
  /\ pc' = "formatTableWithContext"
  /\ UNCHANGED <<stmt, expr, ctx, keywordCase, standardFormat, sql, parsed, out, width, entries>>

\* The context formatWithClauseWithContext renders every CTE body of the main
\* statement under.
FormatWithClause ==
  /\ pc = "start" /\ ctx.parent = NoParent /\ IsStatementContext(ctx)
  /\ derived' = <<cteContext(ctx)>> /\ given' = <<ctx.baseKeywordLength>>
  /\ pc' = "formatWithClauseWithContext"
  /\ UNCHANGED <<stmt, expr, ctx, keywordCase, standardFormat, sql, parsed, out, width, entries>>

\* The context formatSelectStatementWithContext renders the clauses of a
\* statement with a WITH list under.
FormatStatement ==
  /\ pc = "start" /\ IsStatementContext(ctx)
  /\ \E i \in DOMAIN NarrowStatements :
       /\ derived' = <<actualContext(NarrowStatements[i], ctx)>>
       /\ given' = <<calculateGlobalMaxKeywordLength(NarrowStatements[i])>>
  /\ pc' = "formatSelectStatementWithContext"
  /\ UNCHANGED <<stmt, expr, ctx, keywordCase, standardFormat, sql, parsed, out, width, entries>>

\* The render goes on under the derived context.
Enter ==
  /\ pc \in DerivePcs
  /\ ctx' = derived[1]
  /\ derived' = NoParent /\ given' = <<>> /\ expr' = Undefined
  /\ pc' = "start"
  /\ UNCHANGED <<stmt, keywordCase, standardFormat, sql, parsed, out, width, entries>>

\* The operation returns to its caller, which goes on under ctx.
Return ==
  /\ pc \notin {"start", "received"}
  /\ derived' = NoParent /\ given' = <<>> /\ expr' = Undefined /\ out' = <<>> /\ width' = 0
  /\ pc' = "start"
  /\ UNCHANGED <<stmt, ctx, keywordCase, standardFormat, sql, parsed, entries>>

NextCtx ==
  \/ CreateChildContext \/ CreateSiblingContext \/ CreateSubqueryContext
  \/ GetContextIndent \/ GetClosingIndent
  \/ Receive \/ FormatEmbedded \/ FormatSubquery
  \/ FormatDerivedTable \/ FormatWithClause \/ FormatStatement
  \/ Enter \/ Return

SpecCtx == InitCtx /\ [][NextCtx]_vars

(***************************************************************************)
(* The ON condition of a join: the analyzer counts its AND keywords and    *)
(* the join composer lays it out as one entry per conjunct.                *)
(***************************************************************************)

\* ON conditions: a single comparison, the AND and OR chains, and AND nodes
\* above and below an OR node.
JoinConditions ==
  <<Leaf(1),
    Bin(<<"A","N","D">>, Leaf(1), Bin(<<"O","R">>, Leaf(2), Leaf(3))),
    Bin(<<"O","R">>, Bin(<<"A","N","D">>, Leaf(1), Leaf(2)), Leaf(3)),
    Bin(<<"A","N","D">>,
        Bin(<<"O","R">>, Bin(<<"A","N","D">>, Leaf(1), Leaf(2)), Leaf(3)), Leaf(4))>>
  \o Chains

InitJoin ==
  /\ pc = "start" /\ derived = NoParent /\ given = <<>> /\ entries = <<>>
  /\ \E i \in DOMAIN JoinConditions : expr = JoinConditions[i]
  /\ \E w \in MinWidth..MaxWidth : ctx = IndentContext(0, "main", w, NoParent, FALSE)
  /\ keywordCase \in {"upper", "lower"}
  /\ stmt = Undefined /\ standardFormat = FALSE /\ sql = <<>> /\ parsed = Undefined
  /\ out = <<>> /\ width = 0

\* FormatterUtils.countAndKeywords(expr)
CountAndKeywords ==
  /\ pc = "start"
  /\ width' = countAndKeywords(expr)
  /\ pc' = "counted"
  /\ UNCHANGED <<stmt, expr, ctx, keywordCase, standardFormat, sql, parsed, out, derived,
                 given, entries>>

\* SelectFormatter.formatJoinConditionWithContext(expr, ctx, joinContext)
FormatJoinCondition ==
  /\ pc = "counted"
  /\ entries' = formatJoinConditionWithContext(expr, ctx,
                   createSiblingContext(ctx, "join_condition"), Options)
  /\ pc' = "done"
  /\ UNCHANGED <<stmt, expr, ctx, keywordCase, standardFormat, sql, parsed, out, width,
                 derived, given>>

NextJoin == CountAndKeywords \/ FormatJoinCondition

SpecJoin == InitJoin /\ [][NextJoin]_vars

(***************************************************************************)
(* Properties of the analyzer                                              *)
(***************************************************************************)

\* The keyword set the analyzer collects for a statement: WITH and the
\* keywords of every CTE body when there is a WITH list, and the keywords of
\* the statement itself.
CollectedKeywords(s) ==
  (IF Has(s, "with")
   THEN <<<<"W","I","T","H">>>> \o
        Concat([i \in DOMAIN s.with |->
                  IF IsUndefined(CteQuery(s.with[i])) THEN <<>>
                  ELSE collectKeywordsFromStatement(CteQuery(s.with[i]))])
   ELSE <<>>)
  \o collectKeywordsFromStatement(s)

\* C3 -- Keyword width analyzer result: calculateGlobalMaxKeywordLength
\* returns the maximum character length over the collected keyword set, and
\* returns the fallback constant 6 when the collected set is empty.
C3_AnalyzerResult ==
  pc = "global" =>
    IF Len(CollectedKeywords(stmt)) = 0 THEN width = 6
    ELSE /\ \A i \in DOMAIN CollectedKeywords(stmt) : Len(CollectedKeywords(stmt)[i]) <= width
         /\ \E i \in DOMAIN CollectedKeywords(stmt) : Len(CollectedKeywords(stmt)[i]) = width

(***************************************************************************)
(* Properties of the expression renderer                                   *)
(***************************************************************************)

IsAndOr(e) == ~IsUndefined(e) /\ TypeOf(e) = "binary_expr" /\ Op(e) \in {<<"A","N","D">>,
    <<"O","R">>}

RECURSIVE ChainLeaves(_, _)
\* The leaves, left to right, of the tree of nested applications of op.
ChainLeaves(e, op) ==
  IF IsAndOr(e) /\ Op(e) = op
  THEN ChainLeaves(e.left, op) \o ChainLeaves(e.right, op)
  ELSE <<e>>

IsSingleLine(text) == ~IsThrown(text) /\ \A i \in DOMAIN text : text[i] # "\n"

\* A tree of one operator whose leaves are single-line and not AND/OR nodes.
IsPlainChain(e, context, o) ==
  /\ IsAndOr(e)
  /\ \A i \in DOMAIN ChainLeaves(e, Op(e)) :
       /\ ~IsAndOr(ChainLeaves(e, Op(e))[i])
       /\ IsSingleLine(formatExpressionWithContext(ChainLeaves(e, Op(e))[i], context, o))

\* C4 -- AND/OR flattening: under a context with nestLevel 0, a tree of d >= 1
\* nested applications of one operator over d+1 single-line leaves renders as
\* exactly d+1 lines in leaf order; line 1 is the first leaf, and every later
\* line is the operator left-padded to baseKeywordLength, a space, the leaf.
C4_Flattening ==
  (pc = "done" /\ ctx.nestLevel = 0 /\ IsPlainChain(expr, ctx, Options)) =>
    LET leaves == ChainLeaves(expr, Op(expr))
        lines == SplitLines(out)
    IN /\ Len(lines) = Len(leaves)
       /\ lines[1] = formatExpressionWithContext(leaves[1], ctx, Options)
       /\ \A k \in 2..Len(leaves) :
            lines[k] = PadStart(Op(expr), ctx.baseKeywordLength) \o <<" ">>
                       \o formatExpressionWithContext(leaves[k], ctx, Options)

\* A chain of four leaves whose root has a chain on both sides was rendered
\* as four lines.
C4_Witness ==
  /\ pc = "done" /\ ctx.nestLevel = 0 /\ IsPlainChain(expr, ctx, Options)
  /\ IsAndOr(expr.left) /\ IsAndOr(expr.right)
  /\ Len(ChainLeaves(expr, Op(expr))) = 4
  /\ Len(SplitLines(out)) = 4

IsNotBetweenDirect(e) == TypeOf(e) = "binary_expr" /\ Op(e) = <<"N","O","T"," ","B","E","T","W",
       "E","E","N">>

IsNotBetweenUnary(e) ==
  /\ TypeOf(e) = "unary_expr" /\ Op(e) = <<"N","O","T">> /\ Has(e, "expr")
  /\ TypeOf(e.expr) = "binary_expr" /\ Op(e.expr) = <<"B","E","T","W","E","E","N">>

IsNotBetweenNested(e) ==
  /\ TypeOf(e) = "binary_expr" /\ Op(e) = <<"N","O","T">> /\ Has(e, "right")
  /\ Op(e.right) = <<"B","E","T","W","E","E","N">>

\* x NOT BETWEEN v1 AND v2
NotBetweenText(x, bounds, context, o) ==
  formatExpressionWithContext(x, context,
      o) \o <<" ">> \o <<"N","O","T"," ","B","E","T","W","E","E","N">> \o <<" ">>
  \o formatExpressionWithContext(bounds.value[1], context,
      o) \o <<" ">> \o <<"A","N","D">> \o <<" ">>
  \o formatExpressionWithContext(bounds.value[2], context, o)

\* C6 -- NOT BETWEEN normalisation: each of the three encodings of NOT BETWEEN
\* over the same operand x and bounds (v1, v2) renders as the one text
\* x NOT BETWEEN v1 AND v2.
C6_NotBetweenNormalised ==
  pc = "done" =>
    /\ IsNotBetweenDirect(expr) => out = NotBetweenText(expr.left, expr.right, ctx, Options)
    /\ IsNotBetweenUnary(expr) =>
         out = NotBetweenText(expr.expr.left, expr.expr.right, ctx, Options)
    /\ IsNotBetweenNested(expr) =>
         out = NotBetweenText(expr.left, expr.right.right, ctx, Options)

\* The kinds formatExpressionWithContext has a case for.
KnownKinds ==
  {"column_ref", "case", "binary_expr", "function", "aggr_func", "window_func", "cast",
   "unary_expr", "array", "param", "backticks_quote_string", "double_quote_string",
   "single_quote_string", "string", "regex_string", "hex_string", "bit_string", "number",
   "bool", "boolean", "null", "date", "time", "timestamp", "datetime", "star", "origin",
   "default", "expr_list", "interval", "extract", "undefined"}

\* C10 -- Total expression dispatch: formatExpressionWithContext returns text
\* and never raises, for every node and every context; a node of no known
\* kind yields its value when it has one and the placeholder comment otherwise.
C10_TotalDispatch ==
  pc = "done" =>
    /\ ~IsThrown(out)
    /\ TypeOf(expr) \notin KnownKinds =>
         out = IF Has(expr, "value") THEN expr.value
           ELSE <<"/","*"," ","u","n","s","u","p","p","o","r","t","e","d"," ","e","x","p","r","e",
                "s","s","i","o","n"," ","*","/">>

(***************************************************************************)
(* Properties of the statement renderer                                    *)
(***************************************************************************)

\* The number of spaces a line starts with.
LeadingSpaces(line) ==
  IF \A i \in DOMAIN line : line[i] = " " THEN Len(line)
  ELSE (CHOOSE i \in DOMAIN line : line[i] # " " /\ \A j \in 1..(i - 1) : line[j] = " ") - 1

\* The keywords that start a clause line.
ClauseKeywords ==
  <<<<"S","E","L","E","C","T">>, <<"F","R","O","M">>, <<"W","H","E","R","E">>,
      <<"G","R","O","U","P"," ","B","Y">>, <<"H","A","V","I","N","G">>,
      <<"O","R","D","E","R"," ","B","Y">>, <<"L","I","M","I","T">>,
    T.inner_join, T.left_join, <<"O","N">>, <<"A","N","D">>,
    toUpperCase(T.union), toUpperCase(T.union_all), toUpperCase(T.intersect),
    <<"E","X","C","E","P","T">>>>

\* The line, whatever its letter case, starts with the keyword as a whole word.
LineHasKeyword(line, keyword) ==
  LET text == toUpperCase(Trim(line))
  IN /\ StartsWith(text, keyword)
     /\ (Len(text) = Len(keyword) \/ text[Len(keyword) + 1] = " ")

\* The clause keyword a line starts with is the longest one it starts with.
IsLineKeyword(line, k) ==
  /\ LineHasKeyword(line, ClauseKeywords[k])
  /\ \A j \in DOMAIN ClauseKeywords :
       LineHasKeyword(line, ClauseKeywords[j]) => Len(ClauseKeywords[j]) <= Len(ClauseKeywords[k])

RECURSIVE SubqueryFree(_)
\* No SELECT nested in an expression or in FROM, here or in a CTE body or in
\* the continuation of a set operation: every clause line is a top-level one.
SubqueryFree(s) ==
  /\ \A i \in DOMAIN s.columns :
       ~(Has(s.columns[i], "expr") /\ Has(s.columns[i].expr, "ast"))
  /\ Has(s, "from") => \A i \in DOMAIN s.from : ~Has(s.from[i], "expr")
  /\ Has(s, "where") => IsUndefined(extractSubqueryAst(Field(s.where, "right")))
  /\ Has(s, "with") => \A i \in DOMAIN s.with : SubqueryFree(CteQuery(s.with[i]))
  /\ Has(s, "_next") => SubqueryFree(s._next)

\* C1 -- Keyword alignment: in the text rendered for a SELECT statement under
\* the root context of width W, every clause keyword that starts a line ends
\* at column W and is no longer than W, in the main query, in every CTE body
\* and in the continuation of a set operation.
C1_KeywordAlignment ==
  (pc = "done" /\ SubqueryFree(stmt)) =>
    /\ ~IsThrown(out)
    /\ \A i \in DOMAIN SplitLines(out) : \A k \in DOMAIN ClauseKeywords :
         IsLineKeyword(SplitLines(out)[i], k) =>
           /\ LeadingSpaces(SplitLines(out)[i]) + Len(ClauseKeywords[k]) = ctx.baseKeywordLength
           /\ Len(ClauseKeywords[k]) <= ctx.baseKeywordLength

\* The width of the context the i-th CTE body of s is rendered with.
CteBodyWidth(s, context, i) ==
  actualContext(CteQuery(s.with[i]), cteContext(actualContext(s, context))).baseKeywordLength

\* C2 -- Shared width across a WITH-block: for a statement with a WITH clause
\* rendered at nestLevel 0 under a main context, the context of every CTE body
\* and the context of the main query's clauses have the same baseKeywordLength,
\* which is calculateGlobalMaxKeywordLength of the statement.
C2_SharedWidth ==
  (pc = "done" /\ Has(stmt, "with")) =>
    /\ actualContext(stmt, ctx).baseKeywordLength = calculateGlobalMaxKeywordLength(stmt)
    /\ \A i \in DOMAIN stmt.with :
         CteBodyWidth(stmt, ctx, i) = calculateGlobalMaxKeywordLength(stmt)

\* The column at which the AS of alias starts in a line that ends with it.
AsColumn(line, alias) == Len(line) - Len(alias) - 3

EndsWithAlias(line, alias) == EndsWith(line, <<" ">> \o <<"A","S">> \o <<" ">> \o alias)

\* C5 -- Alias alignment: when at least one column has an alias, the AS of
\* every aliased column starts at the same column of its line, in both modes
\* and for every column expression; when no column has an alias the column
\* texts are emitted without padding.
C5_AliasAlignment ==
  (pc = "clause" /\ ~IsThrown(out)) =>
    LET lines == SplitLines(out)
        columns == stmt.columns
    IN IF \E i \in DOMAIN columns : Has(columns[i], "as")
       THEN \E at \in 0..Len(out) :
              \A i \in DOMAIN columns :
                Has(columns[i], "as") =>
                  /\ \E n \in DOMAIN lines : EndsWithAlias(lines[n], columns[i].as)
                  /\ \A n \in DOMAIN lines :
                       EndsWithAlias(lines[n], columns[i].as) =>
                         AsColumn(lines[n], columns[i].as) = at
       ELSE \A n \in DOMAIN lines : ~EndsWith(lines[n], <<" ">>)

\* The characters that separate the tokens of a rendered text.
Separators == {" ", "\n", "(", ")", ","}

RECURSIVE Tokens(_)
\* The maximal runs of characters of a text that hold no separator.
Tokens(text) ==
  IF text = <<>> THEN <<>>
  ELSE IF \A i \in DOMAIN text : text[i] \notin Separators THEN <<text>>
  ELSE LET i == CHOOSE n \in DOMAIN text :
                  text[n] \in Separators /\ \A j \in 1..(n - 1) : text[j] \notin Separators
       IN (IF i > 1 THEN <<SubSeq(text, 1, i - 1)>> ELSE <<>>)
            \o Tokens(SubSeq(text, i + 1, Len(text)))

\* The keywords the renderer writes, in upper case.
KeywordTexts ==
  ClauseKeywords \o
  <<<<"W","I","T","H">>, <<"A","S">>, <<"O","R">>, <<"B","E","T","W","E","E","N">>, <<"N","O","T">>,
      <<"I","N">>, <<"E","X","I","S","T","S">>, <<"C","A","S","E">>, <<"W","H","E","N">>,
    <<"T","H","E","N">>, <<"E","L","S","E">>, <<"E","N","D">>, <<"O","V","E","R">>,
        <<"P","A","R","T","I","T","I","O","N"," ","B","Y">>, <<"A","S","C">>, <<"D","E","S","C">>,
        <<"O","F","F","S","E","T">>,
    <<"N","U","L","L">>>>

\* The words the keywords are made of.
KeywordWords ==
  UNION {{Tokens(KeywordTexts[i])[j] : j \in DOMAIN Tokens(KeywordTexts[i])} :
           i \in DOMAIN KeywordTexts}

\* C7 -- Case normalisation: with keywordCase = lower no keyword token of the
\* rendered text contains an uppercase letter, and with keywordCase = upper no
\* keyword token contains a lowercase letter; this covers every keyword the
\* renderer writes.
C7_CaseNormalised ==
  (pc = "done" /\ ~IsThrown(out)) =>
    \A i \in DOMAIN Tokens(out) :
      LET token == Tokens(out)[i]
      IN toUpperCase(token) \in KeywordWords =>
           token = (IF keywordCase = "lower" THEN toLowerCase(token) ELSE toUpperCase(token))

(***************************************************************************)
(* Properties of formatSql                                                 *)
(***************************************************************************)

\* Where the first word of a text ends, and where the white space after it ends.
FirstWordEnd(text) == RunEnd(text, RunEnd(text, 1, "space") + 1, "word")

FirstGapEnd(text) == RunEnd(text, FirstWordEnd(text) + 1, "space")

\* Where the comment that opens at index from closes, 0 when it does not.
CommentEnd(text, from) ==
  IF \E q \in (from + 2)..Len(text) : OccursAt(text, q, CommentClose)
  THEN 1 + CHOOSE q \in (from + 2)..Len(text) :
             /\ OccursAt(text, q, CommentClose)
             /\ \A r \in (from + 2)..(q - 1) : ~OccursAt(text, r, CommentClose)
  ELSE 0

\* The first word of the text is followed, after optional white space, by a comment.
HasHint(text) ==
  /\ FirstWordEnd(text) > RunEnd(text, 1, "space")
  /\ OccursAt(text, FirstGapEnd(text) + 1, CommentOpen)
  /\ CommentEnd(text, FirstGapEnd(text) + 1) # 0

HintOf(text) == SubSeq(text, FirstGapEnd(text) + 1, CommentEnd(text, FirstGapEnd(text) + 1))

WithoutHint(text) ==
  SubSeq(text, 1, FirstGapEnd(text))
    \o SubSeq(text, CommentEnd(text, FirstGapEnd(text) + 1) + 1, Len(text))

\* The text the statements of the parse render to, before the hint is restored.
Rendered ==
  JoinS([i \in DOMAIN parsed.statements |-> formatStatement(parsed.statements[i], Options)],
        NL \o NL)

\* How many times a pattern occurs in a text.
Occurrences(text, pattern) == Cardinality({i \in DOMAIN text : OccursAt(text, i, pattern)})

\* C8 -- Hint round-trip: when the first word of the input is followed by a
\* comment, the text handed to the parser is the input without exactly that
\* comment, and after a successful render the output is the rendered text with
\* the comment inserted once, after the first keyword and one space; without
\* such a comment the output is the rendered text with nothing inserted.
C8_HintRoundTrip ==
  (pc = "done" /\ Has(parsed, "statements") /\ Len(Field(parsed, "statements")) > 0
     /\ ~IsThrown(Rendered)) =>
    IF HasHint(sql)
    THEN /\ extractHintComment(sql).sql = WithoutHint(sql)
         /\ out = SubSeq(Rendered, 1, FirstWordEnd(Rendered)) \o <<" ">> \o HintOf(sql)
                    \o SubSeq(Rendered, FirstWordEnd(Rendered) + 1, Len(Rendered)) \o <<";">>
         /\ Occurrences(out, HintOf(sql)) = 1
    ELSE out = Rendered \o <<";">>

\* C9 -- Idempotence: formatting the output of formatting a valid input gives
\* the same text again, byte for byte.
C9_Idempotent ==
  (pc = "again" /\ ~HasHint(sql)) => out = sql

\* The kinds of statement the statement dispatch has a case for.
StatementKinds ==
  {"select", "insert", "replace", "update", "delete", "create", "drop", "alter",
   "truncate", "show"}

\* The parse has a statement of a kind outside the statement dispatch.
HasUnsupported ==
  /\ Has(parsed, "statements")
  /\ \E i \in DOMAIN parsed.statements : TypeOf(parsed.statements[i]) \notin StatementKinds

\* Something inside formatSql raised: the parser rejected the text, there is
\* no statement, or the rendering of a statement raised.
Failed ==
  IF Has(parsed, "error") THEN TRUE
  ELSE Len(parsed.statements) = 0 \/ IsThrown(Rendered)

\* C11 -- Unsupported statement kind is recovered locally: when a statement of
\* the input is of a kind outside the statement dispatch, rendering is not
\* aborted: the call returns formatted text in which the other statements of
\* the input are rendered.
C11_UnsupportedRecovered ==
  (pc = "done" /\ HasUnsupported) =>
    /\ ~IsThrown(out)
    /\ out # sql
    /\ \A i \in DOMAIN parsed.statements :
         TypeOf(parsed.statements[i]) = "select" =>
           Occurrences(out, formatStatement(parsed.statements[i], Options)) > 0

\* C12 -- Invalid SQL raises: when the parser rejects the input text, formatSql
\* raises to its caller instead of returning a text.
C12_InvalidRaises ==
  (pc = "done" /\ Has(parsed, "error")) => IsThrown(out)

SelectFromWhere(s) ==
  /\ TypeOf(s) = "select" /\ Has(s, "from") /\ Has(s, "where")
  /\ \A f \in {"groupby", "having", "orderby", "_next"} : ~Has(s, f)
  /\ Has(s, "limit") => Len(s.limit.value) = 0
  /\ \A i \in DOMAIN s.from : ~Has(s.from[i], "join")

\* One CTE, and both the CTE body and the main query use SELECT, FROM and WHERE.
CteScenario(s) ==
  /\ Has(s, "with") /\ Len(s.with) = 1 /\ SelectFromWhere(s)
  /\ ~Has(CteQuery(s.with[1]), "with") /\ SelectFromWhere(CteQuery(s.with[1]))

\* The analyzer's width, the width of the main query's context and the width
\* of the CTE body's context are w, and every clause keyword that starts a
\* line of the rendered text ends at column w.
SharedWidthIs(w) ==
  /\ ctx.baseKeywordLength = w
  /\ actualContext(stmt, ctx).baseKeywordLength = w
  /\ CteBodyWidth(stmt, ctx, 1) = w
  /\ \A i \in DOMAIN SplitLines(out) : \A k \in DOMAIN ClauseKeywords :
       IsLineKeyword(SplitLines(out)[i], k) =>
         LeadingSpaces(SplitLines(out)[i]) + Len(ClauseKeywords[k]) = w

\* C16 -- Shared width of the CTE scenario: for a statement with one CTE in
\* which the CTE body and the main query use only SELECT, FROM and WHERE, the
\* analyzer yields the shared width 5, applied inside the CTE body and inside
\* the main body.
C16_SharedWidthFive ==
  (pc = "done" /\ CteScenario(stmt)) => SharedWidthIs(5)

\* C16 as amended: the shared width of the scenario is 6, the length of
\* SELECT, the longest of WITH, SELECT, FROM and WHERE.
C16_SharedWidthSix ==
  (pc = "done" /\ CteScenario(stmt)) => SharedWidthIs(6)

\* The scenario was rendered, with FROM and WHERE lines in both bodies.
C16_Witness ==
  /\ pc = "done" /\ CteScenario(stmt) /\ ~IsThrown(out)
  /\ Cardinality({i \in DOMAIN SplitLines(out) :
                    IsLineKeyword(SplitLines(out)[i], 3)}) = 2

(***************************************************************************)
(* Properties of the indent context                                        *)
(***************************************************************************)

\* The adjustment of a context kind.
Adjustment(contextType) ==
  IF contextType = "case_when" THEN 3
  ELSE IF contextType \in {"select_clause", "where_clause", "function_arg", "subquery"} THEN 1
  ELSE 0

\* baseKeywordLength + 2 * nestLevel + the adjustment of the kind
IndentWidth(c) == c.baseKeywordLength + 2 * c.nestLevel + Adjustment(c.contextType)

\* C17 -- Indent width formula as stated: getContextIndent() returns
\* baseKeywordLength when nestLevel = 0, whatever the contextType, and
\* baseKeywordLength + 2*nestLevel + adj when nestLevel > 0.
C17_IndentFormula ==
  pc = "getContextIndent" =>
    width = IF ctx.nestLevel = 0 THEN ctx.baseKeywordLength ELSE IndentWidth(ctx)

\* C17 -- Indent width formula: for every indent context, getContextIndent()
\* returns baseKeywordLength + 2*nestLevel + adj at every nestLevel, 0
\* included, where adj is 3 for case_when, 1 for select_clause, where_clause,
\* function_arg and subquery, and 0 for main and join_condition.
C17_IndentFormulaEveryLevel ==
  pc = "getContextIndent" => width = IndentWidth(ctx)

C17_Witness ==
  /\ pc = "getContextIndent"
  /\ ctx.nestLevel = 0 /\ ctx.contextType = "case_when"
  /\ width = ctx.baseKeywordLength + 3

\* C18 -- Closing indent: getClosingIndent() of a context c equals the indent
\* width of c's parent when c has a parent and is not a subquery context, the
\* parent's indent width + 1 when c is a subquery context with a parent, and
\* c.baseKeywordLength when c has no parent, a subquery context included.
C18_ClosingIndent ==
  pc = "getClosingIndent" =>
    width = IF ctx.parent = NoParent THEN ctx.baseKeywordLength
            ELSE IF ctx.contextType = "subquery" THEN IndentWidth(ctx.parent[1]) + 1
            ELSE IndentWidth(ctx.parent[1])

C18_Witness ==
  /\ pc = "getClosingIndent"
  /\ ctx.contextType = "subquery" /\ ctx.parent # NoParent
  /\ ctx.parent[1].contextType = "case_when"
  /\ width = ctx.parent[1].baseKeywordLength + 2 * ctx.parent[1].nestLevel + 4

\* C19 -- Derivation results: createChildContext(k) returns a context with
\* nestLevel + 1, contextType k, the receiver's baseKeywordLength and the
\* receiver as parent; createSiblingContext(k) one with the receiver's
\* nestLevel, contextType k, its baseKeywordLength and the receiver's parent;
\* createSubqueryContext(w) one with nestLevel + 1, contextType subquery,
\* baseKeywordLength w and the receiver as parent; every derived context has
\* isFirstSelect = false; and the context a subquery of an expression is
\* rendered under has nestLevel one more than the context of the expression.
C19_Derivation ==
  /\ pc = "createChildContext" =>
       /\ derived[1].nestLevel = ctx.nestLevel + 1
       /\ derived[1].contextType = given[1]
       /\ derived[1].baseKeywordLength = ctx.baseKeywordLength
       /\ derived[1].parent = <<ctx>>
  /\ pc = "createSiblingContext" =>
       /\ derived[1].nestLevel = ctx.nestLevel
       /\ derived[1].contextType = given[1]
       /\ derived[1].baseKeywordLength = ctx.baseKeywordLength
       /\ derived[1].parent = ctx.parent
  /\ pc = "createSubqueryContext" =>
       /\ derived[1].nestLevel = ctx.nestLevel + 1
       /\ derived[1].contextType = "subquery"
       /\ derived[1].baseKeywordLength = given[1]
       /\ derived[1].parent = <<ctx>>
  /\ pc = "formatSubqueryWithContext" => derived[1].nestLevel = ctx.nestLevel + 1
  /\ pc \in DerivePcs => ~derived[1].isFirstSelect

C19_Witness ==
  /\ pc = "createSiblingContext"
  /\ ctx.nestLevel = 1 /\ ctx.contextType = "subquery"
  /\ derived[1].contextType = "where_clause"
  /\ derived[1].parent = ctx.parent /\ derived[1].parent # <<ctx>>

\* A context and its ancestors along the parent link.
RECURSIVE ParentChain(_)
ParentChain(c) == {c} \cup (IF c.parent = NoParent THEN {} ELSE ParentChain(c.parent[1]))

Carried(operand) ==
  IF IsUndefined(operand) THEN Undefined
  ELSE IF Has(operand, "ast") THEN operand.ast
  ELSE IF TypeOf(operand) = "expr_list" /\ Has(operand, "value")
          /\ \E i \in DOMAIN operand.value : Has(operand.value[i], "ast")
  THEN operand.value[CHOOSE i \in DOMAIN operand.value : Has(operand.value[i], "ast")].ast
  ELSE Undefined

\* Whether f is a call of one of the names with a SELECT as first argument.
IsSubqueryCall(f, names) ==
  /\ ~IsUndefined(f) /\ TypeOf(f) = "function" /\ HasNameParts(f)
  /\ Len(f.name.name) > 0 /\ Has(f.name.name[1], "value")
  /\ toUpperCase(f.name.name[1].value) \in names
  /\ HasSubqueryArg(f)

\* The SELECT embedded in a use of a subquery-taking operator, Undefined for
\* any other expression.
EmbeddedSelect(e) ==
  LET Calls == {<<"E","X","I","S","T","S">>, <<"A","N","Y">>, <<"A","L","L">>}
  IN IF IsUndefined(e) THEN Undefined
     ELSE IF TypeOf(e) = "binary_expr" /\ Op(e) \in subqueryOperators
     THEN Carried(Field(e, "right"))
     ELSE IF TypeOf(e) = "binary_expr" /\ Op(e) = <<"N","O","T"," ","I","N">>
     THEN Carried(Field(e, "right"))
     ELSE IF TypeOf(e) = "binary_expr" /\ Op(e) = <<"N","O","T">> /\ Has(e, "right")
             /\ Op(e.right) \in subqueryOperators
     THEN Carried(Field(e.right, "right"))
     ELSE IF TypeOf(e) = "binary_expr" /\ IsSubqueryCall(Field(e, "right"), Calls)
     THEN e.right.args.value[1].ast
     ELSE IF TypeOf(e) = "unary_expr" /\ Op(e) = <<"N","O","T">>
             /\ IsSubqueryCall(Field(e, "expr"), Calls)
     THEN e.expr.args.value[1].ast
     ELSE IF IsSubqueryCall(e, Calls) THEN e.args.value[1].ast
     ELSE Undefined

\* The lines of a text that are not blank.
NonBlankLines(text) ==
  LET lines == SplitLines(text)
  IN SelectSeq(lines, LAMBDA line : Trim(line) # <<>>)

\* Whether text holds block, every line of it after the same indent, between
\* its only opening and its only closing parenthesis.
EnclosesBlock(text, block) ==
  /\ ~IsThrown(text) /\ ~IsThrown(block)
  /\ Occurrences(text, <<"(">>) = 1 /\ Occurrences(text, <<")">>) = 1
  /\ IndexOf(text, "(") < IndexOf(text, ")")
  /\ LET inside == NonBlankLines(SubSeq(text, IndexOf(text, "(") + 1,
                                        IndexOf(text, ")") - 1))
          lines == SplitLines(block)
     IN /\ Len(inside) = Len(lines)
        /\ \E n \in 1..Len(text) :
             \A i \in DOMAIN lines : inside[i] = Spaces(n) \o lines[i]

\* The rendered SELECT of a subquery of an expression under context.
RenderedSubquery(ast, context, o) ==
  formatSelectStatementWithContext(ast,
    dynamicSubqueryContext(ast, createSubqueryContext(context, 6)), FALSE, o)

\* C21 -- Subquery operators render the embedded SELECT: for IN, EXISTS, ANY,
\* ALL and their NOT forms over an operand that carries a SELECT, directly or
\* in an item of an expression list, the rendered expression contains the
\* rendered SELECT as an indented block between one '(' and one ')'.
C21_SubqueryRendered ==
  (pc = "done" /\ ~IsUndefined(EmbeddedSelect(expr))) =>
    EnclosesBlock(out, RenderedSubquery(EmbeddedSelect(expr), ctx, Options))

\* The last line of a text.
LastLine(text) == SplitLines(text)[Len(SplitLines(text))]

\* C22 -- Closing parenthesis of a subquery operator: under a where_clause or
\* join_condition context the closing ')' is on its own line after exactly
\* baseKeywordLength - 2 spaces; under a select-list context it is on its own
\* line after as many spaces as the indent width of the subquery's context.
C22_ClosingParenthesis ==
  (pc = "done" /\ ~IsUndefined(EmbeddedSelect(expr)) /\ ~IsThrown(out)
   /\ ctx.contextType \in {"where_clause", "join_condition", "select_clause"}) =>
    LastLine(out) =
      Spaces(IF IsWhereCtx(ctx) THEN ctx.baseKeywordLength - 2
             ELSE IndentWidth(dynamicSubqueryContext(EmbeddedSelect(expr),
                                createSubqueryContext(ctx, 6)))) \o <<")">>

\* The text of a literal value: a number as it stands, a string in quotes.
Literal(v) == IF TypeOf(v) = "number" THEN v.value ELSE <<"'">> \o v.value \o <<"'">>

\* Whether e is column IN (v1, ..., vn) over literals, none a subquery.
IsInList(e) ==
  /\ ~IsUndefined(e) /\ TypeOf(e) = "binary_expr" /\ Op(e) = <<"I","N">>
  /\ Has(e, "left") /\ TypeOf(e.left) = "column_ref" /\ ~Has(e.left, "table")
  /\ Has(e, "right") /\ TypeOf(e.right) = "expr_list" /\ Has(e.right, "value")
  /\ Len(e.right.value) >= 1
  /\ \A i \in DOMAIN e.right.value :
       TypeOf(e.right.value[i]) \in {"number", "single_quote_string"}

\* The vertical layout of a list under a context of width w: the lines after
\* the operator line.
VerticalList(values, w) ==
  [i \in DOMAIN values |->
     IF i = 1 THEN Spaces(w + 3) \o Literal(values[1])
     ELSE Spaces(w + 1) \o <<",", " ">> \o Literal(values[i])]
  \o <<Spaces(w + 1) \o <<")">>>>

\* C23 -- Vertical IN-list: an IN over a list of n >= 2 values without a
\* subquery under a where_clause or join_condition context ends the operator
\* line with '(', puts the first value on the next line after
\* baseKeywordLength + 3 spaces, each later value on its own line after
\* baseKeywordLength + 1 spaces and ', ', and ')' on its own line after
\* baseKeywordLength + 1 spaces; a list of one value, and any list under
\* another context kind, is one line '(v1, v2, ...)'.
C23_VerticalInList ==
  (pc = "done" /\ IsInList(expr)) =>
    LET values == expr.right.value
        head == expr.left.column.str \o <<" ", "I", "N", " ">>
    IN IF Len(values) >= 2 /\ IsWhereCtx(ctx)
       THEN out = Join(<<head \o <<"(">>>> \o VerticalList(values, ctx.baseKeywordLength), NL)
       ELSE out = head \o <<"(">>
                  \o Join([i \in DOMAIN values |-> Literal(values[i])], <<",", " ">>)
                  \o <<")">>

C23_Witness ==
  /\ pc = "done" /\ IsInList(expr) /\ Len(expr.right.value) = 3
  /\ ctx.contextType = "where_clause"
  /\ Len(SplitLines(out)) = 5
  /\ SplitLines(out)[2] = Spaces(ctx.baseKeywordLength + 3) \o Literal(expr.right.value[1])

(***************************************************************************)
(* Properties of the clauses                                               *)
(***************************************************************************)

\* The texts of the columns of stmt, as the SELECT clause lays them out.
ColumnTexts ==
  formatColumnsWithAliasAlignment(stmt.columns,
    createSiblingContext(actualContext(stmt, ctx), "select_clause"), Options)

\* The lines of the columns after the first: ', ' after w - 1 spaces.
LaterColumns(columns, w) ==
  [i \in 1..(Len(columns) - 1) |-> Spaces(w - 1) \o <<",", " ">> \o columns[i + 1]]

\* C24 -- SELECT clause layout: one column renders keyword and column on one
\* line in standard and in compact mode; n >= 2 columns render n + 1 lines in
\* standard mode (the right-aligned keyword alone, then the columns) and n
\* lines in compact mode (keyword and first column together); every later
\* column is on its own line, its ', ' after baseKeywordLength - 1 spaces, so
\* every column's text starts at offset baseKeywordLength + 1.
C24_SelectLayout ==
  (pc = "clause" /\ Has(stmt, "columns") /\ Len(stmt.columns) >= 1
   /\ \A i \in DOMAIN ColumnTexts : IsSingleLine(ColumnTexts[i])) =>
    LET w == actualContext(stmt, ctx).baseKeywordLength
        keyword == PadStart(formatKeyword(<<"S","E","L","E","C","T">>, Options), w)
    IN /\ Len(keyword) = w
       /\ SplitLines(out) =
            IF Len(ColumnTexts) = 1 THEN <<keyword \o <<" ">> \o ColumnTexts[1]>>
            ELSE IF standardFormat
            THEN <<keyword, Spaces(w + 1) \o ColumnTexts[1]>> \o LaterColumns(ColumnTexts, w)
            ELSE <<keyword \o <<" ">> \o ColumnTexts[1]>> \o LaterColumns(ColumnTexts, w)

\* C25 -- Join condition lines match the analyzer's count: the join composer
\* emits one entry prefixed by ON followed by exactly countAndKeywords(on)
\* entries prefixed by AND, one per leaf of the top-level AND tree from left
\* to right, each keyword padded on the left to baseKeywordLength; an AND
\* below an OR is neither counted nor made an entry of its own.
C25_JoinEntries ==
  pc = "done" =>
    LET leaves == ChainLeaves(expr, <<"A","N","D">>)
        Entry(i) ==
          PadStart(formatKeyword(IF i = 1 THEN <<"O","N">> ELSE <<"A","N","D">>, Options),
                   ctx.baseKeywordLength)
          \o <<" ">>
          \o formatExpressionWithContext(leaves[i],
                createSiblingContext(ctx, "join_condition"), Options)
    IN /\ Len(entries) = width + 1
       /\ Len(leaves) = width + 1
       /\ \A i \in DOMAIN entries : entries[i] = Entry(i)

C25_Witness ==
  /\ pc = "done" /\ width = 1 /\ Len(entries) = 2
  /\ Op(expr) = <<"A","N","D">> /\ Op(expr.left) = <<"O","R">>
  /\ Op(expr.left.left) = <<"A","N","D">>

\* Whether a FROM entry carries a nested SELECT.
IsDerivedTable(table) ==
  Has(table, "expr") /\ Has(table.expr, "ast") /\ TypeOf(table.expr.ast) = "select"

\* The lines of a text that are not blank, without the space around them.
TrimmedLines(text) ==
  [i \in DOMAIN NonBlankLines(text) |-> Trim(NonBlankLines(text)[i])]

\* Whether text is '( ', the lines of inner indented again, a newline, w + 1
\* spaces and ')', and then tail.
IsDerivedBlock(text, inner, w, tail) ==
  LET closing == NL \o Spaces(w + 1) \o <<")">> \o tail
  IN /\ ~IsThrown(text)
     /\ StartsWith(text, <<"(", " ">>) /\ EndsWith(text, closing)
     /\ Len(text) >= 2 + Len(closing)
     /\ TrimmedLines(SubSeq(text, 3, Len(text) - Len(closing))) = TrimmedLines(inner)

\* C26 -- Derived table is rendered as a block: for a FROM entry that carries
\* a nested SELECT, whatever the width of the outer context and of the inner
\* query, formatTableWithContext returns '( ', the rendered inner SELECT
\* indented again, a newline, baseKeywordLength + 1 spaces and ')', then
\* ' AS <alias>' when there is an alias; never the fallback name.
C26_DerivedTableBlock ==
  (pc = "table" /\ IsDerivedTable(stmt.from[1])) =>
    IsDerivedBlock(out,
      formatSelectStatementWithContext(stmt.from[1].expr.ast, derived[1], standardFormat,
                                       Options),
      actualContext(stmt, ctx).baseKeywordLength,
      IF Has(stmt.from[1], "as") THEN <<" ","A","S"," ">> \o stmt.from[1].as ELSE <<>>)

\* C27 -- Minimum width of a derived table: the context a FROM-clause derived
\* table is rendered under has contextType subquery, nestLevel one more than
\* the enclosing context, and as baseKeywordLength the width of the inner
\* query's own keywords, but never less than 8.
C27_DerivedTableWidth ==
  (pc = "table" /\ IsDerivedTable(stmt.from[1])) =>
    /\ derived[1].contextType = "subquery"
    /\ derived[1].nestLevel = actualContext(stmt, ctx).nestLevel + 1
    /\ derived[1].baseKeywordLength =
         Max(8, MaxLength(collectKeywordsFromStatement(stmt.from[1].expr.ast)))

C27_Witness ==
  /\ pc = "table" /\ IsDerivedTable(stmt.from[1])
  /\ MaxLength(collectKeywordsFromStatement(stmt.from[1].expr.ast)) = 6
  /\ derived[1].baseKeywordLength = 8 /\ derived[1].nestLevel = 1

\* The statement without its WITH payload.
WithoutWith(s) == [f \in DOMAIN s \ {"with"} |-> s[f]]

\* The context the statement without its WITH payload is rendered with where s
\* is rendered with context: the root context of its own width, or context.
ContextWithoutWith(s, context) ==
  IF context.nestLevel = 0 /\ context.contextType = "main" THEN RootContext(WithoutWith(s))
  ELSE context

\* C28 -- Malformed WITH payload: when the WITH payload of a statement is
\* present but is no list, the rendered statement is the line
\* 'WITH /* invalid CTE */' (the keyword in the configured case) followed by
\* the lines of the statement rendered without the payload, with the width it
\* has without the payload; nothing is raised.
C28_MalformedWith ==
  (pc = "done" /\ Has(stmt, "with") /\ ~IsCteList(stmt.with)) =>
    /\ ~IsThrown(formatSelectStatementWithContext(WithoutWith(stmt),
                    ContextWithoutWith(stmt, ctx), standardFormat, Options)) => ~IsThrown(out)
    /\ out = Str(<<formatKeyword(<<"W","I","T","H">>, Options),
                   <<" ","/","*"," ","i","n","v","a","l","i","d"," ","C","T","E"," ","*","/">>,
                   NL,
                   formatSelectStatementWithContext(WithoutWith(stmt),
                     ContextWithoutWith(stmt, ctx), standardFormat, Options)>>)
    /\ actualContext(stmt, ctx).baseKeywordLength
         = ContextWithoutWith(stmt, ctx).baseKeywordLength

\* A payload whose CTE body has wider keywords than the statement, at the root.
C28_Witness ==
  /\ pc = "done" /\ Has(stmt, "with") /\ ~IsCteList(stmt.with)
  /\ ctx.nestLevel = 0 /\ ~IsThrown(out)
  /\ MaxLength(collectKeywordsFromStatement(CteQuery(stmt.with[0]))) > ctx.baseKeywordLength
  /\ Has(stmt, "where")
  /\ StartsWith(out, <<"W","I","T","H"," ","/","*">>)

\* The line of one arm of a CASE, without its indent.
ArmText(arm, context, o) ==
  IF arm.type = "when"
  THEN Str(<<formatKeyword(<<"W","H","E","N">>, o), <<" ">>,
             formatExpressionWithContext(arm.cond, context, o), <<" ">>,
             formatKeyword(<<"T","H","E","N">>, o), <<" ">>,
             formatExpressionWithContext(arm.result, context, o)>>)
  ELSE Str(<<formatKeyword(<<"E","L","S","E">>, o), <<" ">>,
             formatExpressionWithContext(arm.result, context, o)>>)

\* Whether text is head and CASE on one line, the arms of e in their order,
\* one a line after whenColumn spaces, and END after endColumn spaces.
IsCaseLayout(text, e, head, whenColumn, endColumn, context, o) ==
  /\ ~IsThrown(text)
  /\ Len(SplitLines(text)) = Len(e.args) + 2
  /\ SplitLines(text)[1] = head \o formatKeyword(<<"C","A","S","E">>, o)
  /\ \A i \in DOMAIN e.args :
       SplitLines(text)[i + 1] = Spaces(whenColumn) \o ArmText(e.args[i], context, o)
  /\ SplitLines(text)[Len(e.args) + 2] = Spaces(endColumn) \o formatKeyword(<<"E","N","D">>, o)

IsCaseOperand(e) ==
  TypeOf(e) = "binary_expr" /\ Op(e) = <<"=">> /\ Has(e, "right") /\ TypeOf(e.right) = "case"

\* The columns of the text a CASE may be indented to.
Columns == 0..(MaxWidth + 30)

\* C29 -- CASE layout: a CASE expression with k WHEN/ELSE arms renders k + 2
\* lines: CASE, one line per arm in source order, END. The arm lines are
\* preceded by baseKeywordLength + 3 spaces and END by baseKeywordLength + 1
\* spaces; when the CASE is the right operand of '=', the arm lines are
\* indented to one column and END to the column two less.
C29_CaseLayout ==
  pc = "done" =>
    /\ TypeOf(expr) = "case" =>
         IsCaseLayout(out, expr, <<>>, ctx.baseKeywordLength + 3, ctx.baseKeywordLength + 1,
                      ctx, Options)
    /\ IsCaseOperand(expr) =>
         \E c \in Columns :
           IsCaseLayout(out, expr.right,
                        formatExpressionWithContext(expr.left, ctx, Options) \o <<" ","="," ">>,
                        c, c - 2, ctx, Options)

\* The contexts of a state of the render: the one it goes on under, the one
\* just derived, and their ancestors.
RECURSIVE Ancestors(_)
Ancestors(c) == {c} \cup (IF c.parent = NoParent THEN {} ELSE Ancestors(c.parent[1]))

Reached == Ancestors(ctx) \cup (IF derived = NoParent THEN {} ELSE Ancestors(derived[1]))

\* C30 -- Width is never below 6 where a SELECT is rendered: in a render
\* started from a root context of the analyzer's width of a SELECT statement,
\* every context reached (main query, CTE bodies, subqueries of expressions,
\* derived tables, their siblings and children) has baseKeywordLength >= 6 and
\* nestLevel >= 0, so that baseKeywordLength - 2 and baseKeywordLength less the
\* length of AND or OR are never negative.
C30_WidthFloor ==
  \A c \in Reached :
    /\ c.baseKeywordLength >= 6 /\ c.nestLevel >= 0
    /\ ~IsThrown(Spaces(c.baseKeywordLength - 2))
    /\ \A operator \in {<<"A","N","D">>, <<"O","R">>} :
         c.baseKeywordLength - Len(operator) >= 0

\* A subquery of the narrowest width below a derived table, below the root.
C30_Witness ==
  /\ pc = "formatSubqueryWithContext" /\ derived[1].baseKeywordLength = 6
  /\ derived[1].nestLevel = 2 /\ ctx.contextType = "subquery" /\ ctx.baseKeywordLength = 8
  /\ given = <<6>>

====
